---- MODULE Spec2Model ----
(***************************************************************************)
(* ktop: the refresh-and-aggregation layer.                                *)
(*                                                                         *)
(*   Spec      the pod refresh cycle (k8s/pods_controller.go) run by the   *)
(*             ticker goroutine and by the UI thread (TriggerPodRefresh),  *)
(*             with the peak maps of the Controller they share.            *)
(*   SpecSort  the global sort state and SortPodModels (views/model) over  *)
(*             collections of pod views built by NewPodModel.              *)
(*   SpecRefresh, SpecRefreshFair, SpecRefreshTimeout                      *)
(*             Application.Refresh and the redraw goroutine of Run         *)
(*             (application/app_ctrl.go), in both definitions of Refresh.  *)
(*   SpecSched, SpecSchedFair                                              *)
(*             the goroutine of installPodsHandler: initial refresh,       *)
(*             ticker loop, cancellation (k8s/pods_controller.go).         *)
(*   SpecKey   the sort-key handler of Application.setup with the forced   *)
(*             refresh of TriggerPodRefresh, next to the pod scheduler.    *)
(*   SpecStart, SpecStartFair                                              *)
(*             Controller.Start: cache syncs, handlers, the redraw         *)
(*             goroutine of Run and cancellation of the shared context.    *)
(*   SpecStatus  the container status summary of NewPodModel.              *)
(*   SpecSummary the resource totals of GetPodContainerSummary and the     *)
(*             CPU and MEMORY cells of the pod panel's DrawBody.           *)
(*   SpecRebuild one pod built into a view twice while the clock runs.     *)
(*   SpecRace  SortPodModels step by step, with SetSortField on another    *)
(*             task.                                                       *)
(*   SpecFlag  the pod scheduler under every value of --pods-refresh.      *)
(*   SpecInput the input capture of Application.setup from the key event   *)
(*             on.                                                         *)
(*   SpecNav   the navigation keys of the pod list.                        *)
(***************************************************************************)
EXTENDS Integers, Sequences, FiniteSets, TLC

VARIABLES
    \* ---- k8s.Controller (client_controller.go:21-56) and its environment
    PeakPodCPU,      \* map pod key -> peak CPU
    PeakPodMemory,   \* map pod key -> peak memory
    podCache,        \* pods the pod informer's lister currently holds
    fatal,           \* the Go runtime has ended the process (fatal error)
    \* ---- one record per task that runs refreshPods
    pc,              \* position of the task in refreshPods/GetPodModels
    pods,            \* GetPodModels: the listing this cycle iterates
    idx,             \* GetPodModels / DrawBody: index of the current pod
    podMetrics,      \* GetPodModels: metrics of the current pod
    totalCpu,        \* GetPodModels: CPU total of the current pod
    totalMem,        \* GetPodModels: memory total of the current pod
    \* ---- history of the samples the cycles have seen
    maxSeenCpu,      \* pod key -> largest CPU total computed by any cycle
    maxSeenMem,      \* pod key -> largest memory total computed by any cycle
    skipped,         \* the task's cycle has just passed over a pod without usage
    \* ---- views/model: sort state and the collection being displayed
    currentSortField,
    currentSortDirection,
    podModels,       \* the collection handed to SortPodModels
    podInputs,       \* the pods and metrics the collection was built from
    nanBits,         \* top bits of the NaN this processor's division yields
    lastOp,          \* the last operation of the sort engine and its input
    \* ---- application.Application: the redraw channel and its users
    refreshQ,        \* requests buffered in the channel refreshQ
    refreshPc,       \* position of each caller of Refresh: "idle" or "select"
    timedOut,        \* the caller's time.After timer has fired
    consumer,        \* the goroutine of Run: at "range" or inside "Draw"
    refreshCalls,    \* Refresh calls made so far
    draws,           \* Draw calls begun so far
    sinceDraw,       \* Refresh calls returned since the last Draw began
    lastRefresh,     \* how the last Refresh call ended: "sent" or "dropped"
    \* ---- the pod scheduler: the goroutine of installPodsHandler
    ctxDone,         \* the context handed to Start has been cancelled
    podRefreshFunc,  \* a pod refresh callback is registered (not nil)
    schedPc,         \* "idle", "initial", "select", "tick", "stopped", "notInstalled"
    tickerC,         \* ticks buffered in ticker.C
    ticksSent,       \* ticks the ticker has delivered so far
    ticksReceived,   \* ticks the loop has received so far
    cyclesStarted,   \* refreshPods calls the goroutine has made so far
    callbacks,       \* refreshFunc invocations so far
    cyclePhase,      \* position inside refreshPods: "none", "GetPodList", "build"
    cycleListed,     \* pods the current cycle's listing returned
    cycleBuilt,      \* views the current cycle has built
    cancelledMidBuild, \* ctx was cancelled while the current cycle was building
    lastCycle,       \* how the last refreshPods call ended
    \* ---- the sort-key handler (UI thread) and its forced refresh
    keyPc,           \* "idle", "TriggerPodRefresh", "GetPodList", "build", "Refresh", "return"
    keyField,        \* sort field of the event being handled
    keyLog,          \* what the handler has done for the current event, in order
    keyEvents,       \* sort-key events handled so far
    forcedListed,    \* pods the forced cycle's listing returned
    forcedBuilt,     \* views the forced cycle has built
    forcedExpired,   \* the deadline of the forced cycle's context has passed
    builtAtExpiry,   \* views built when the deadline passed (-1: it has not)
    forcedCalls,     \* refreshFunc invocations by the current forced cycle
    shown,           \* size of the collection a forced cycle last delivered (-1: none)
    lastForced,      \* how the last forced refreshPods call ended
    PodsRefreshInterval, \* Controller.PodsRefreshInterval, in seconds
    \* ---- Controller.Start and the process
    startPc,         \* "notStarted", "returnedError", "waitMetrics", "waitCore", "summary", "node", "pods", "returned"
    metricsAvailable, \* AssertMetricsAvailable returns nil
    coreSync,        \* the wait of lines 190-196: "pending", "synced", "failed"
    nonCore,         \* the goroutine of lines 199-213: "none", "waiting", "synced"
    installed,       \* handlers Start has installed besides the pod handler
    processPanic,    \* "none", or the panic that ended the process
    \* ---- views/model: one pod and the view built from it
    statusPod,       \* the pod handed to NewPodModel
    statusView,      \* the fields NewPodModel derived from its containers
    \* ---- views/model and the pod panel: resource totals and usage ratios
    specPod,         \* the pod whose spec GetPodContainerSummary reads
    nodeAlloc,       \* the allocatable resources GetPodModels found for its node
    metricsDisabled, \* the panel draws without metrics
    summaryView,     \* the resource fields of the view built from specPod
    cells,           \* the CPU and MEMORY cells DrawBody drew for that view
    \* ---- views/model: one pod built into a view more than once
    now,             \* the wall clock, in seconds
    rawInput,        \* the pod object and the pod metrics handed to NewPodModel
    builtViews,      \* the views built from rawInput so far, in order
    \* ---- views/model: a SortPodModels call in progress, one step per comparison
    racePc,          \* "idle", "sort", "done"
    localDirection,  \* SortPodModels' local variable direction
    sortI,           \* the element the insertion sort is inserting
    sortJ,           \* where that element stands
    statesDuring,    \* the <<field, direction>> pairs in force since the call began
    setCalls,        \* SetSortField calls made while the sort ran
    \* ---- the input capture of Application.setup, from the key event on
    visibleView,     \* Application.visibleView
    event,           \* the key event that arrived last
    eventPending,    \* the input capture has not handled it yet
    inputEffect,     \* what the input capture did with the last event it handled
    \* ---- the pod list's navigation keys
    navRow,          \* the selected row of the pod table
    navRowCount,     \* the rows of the pod table, the header included
    navHeight,       \* the height of the table's inner rectangle
    navOffset,       \* the table's row offset
    navLast          \* the last navigation key and whether it changed the selection

peakVars == <<PeakPodCPU, PeakPodMemory, podCache, fatal, pc, pods, idx,
              podMetrics, totalCpu, totalMem, maxSeenCpu, maxSeenMem,
              skipped>>
sortVars == <<currentSortField, currentSortDirection, podModels, podInputs,
              nanBits, lastOp>>
refreshVars == <<refreshQ, refreshPc, timedOut, consumer, refreshCalls, draws,
                 sinceDraw, lastRefresh>>
vars == <<PeakPodCPU, PeakPodMemory, podCache, fatal, pc, pods, idx,
          podMetrics, totalCpu, totalMem, maxSeenCpu, maxSeenMem, skipped,
          currentSortField, currentSortDirection, podModels, podInputs,
          nanBits, lastOp,
          refreshQ, refreshPc, timedOut, consumer, refreshCalls, draws,
          sinceDraw, lastRefresh,
          ctxDone, podRefreshFunc, schedPc, tickerC, ticksSent, ticksReceived,
          cyclesStarted, callbacks, cyclePhase, cycleListed, cycleBuilt,
          cancelledMidBuild, lastCycle,
          keyPc, keyField, keyLog, keyEvents, forcedListed, forcedBuilt,
          forcedExpired, builtAtExpiry, forcedCalls, shown, lastForced,
          PodsRefreshInterval,
          startPc, metricsAvailable, coreSync, nonCore, installed,
          processPanic,
          statusPod, statusView,
          specPod, nodeAlloc, metricsDisabled, summaryView, cells,
          now, rawInput, builtViews,
          racePc, localDirection, sortI, sortJ, statesDuring, setCalls,
          visibleView, event, eventPending, inputEffect,
          navRow, navRowCount, navHeight, navOffset, navLast>>
schedVars == <<ctxDone, podRefreshFunc, schedPc, tickerC, ticksSent,
               ticksReceived, cyclesStarted, callbacks, cyclePhase, cycleListed,
               cycleBuilt, cancelledMidBuild, lastCycle>>
keyVars == <<keyPc, keyField, keyLog, keyEvents, forcedListed, forcedBuilt,
             forcedExpired, builtAtExpiry, forcedCalls, shown, lastForced,
             PodsRefreshInterval>>
startVars == <<startPc, metricsAvailable, coreSync, nonCore, installed,
               processPanic>>
statusVars == <<statusPod, statusView>>
summaryVars == <<specPod, nodeAlloc, metricsDisabled, summaryView, cells>>
\* The variables of the parts of the panel that run on their own.
rebuildVars == <<now, rawInput, builtViews>>
raceVars == <<racePc, localDirection, sortI, sortJ, statesDuring, setCalls>>
inputVars == <<visibleView, event, eventPending, inputEffect>>
navVars == <<navRow, navRowCount, navHeight, navOffset, navLast>>
panelVars == <<summaryVars, rebuildVars, raceVars, inputVars, navVars>>

\* The variables each part of the model leaves alone.
notPeakVars == <<sortVars, refreshVars, schedVars, keyVars, startVars, statusVars,
    panelVars>>
notSortVars == <<peakVars, refreshVars, schedVars, keyVars, startVars, statusVars,
    panelVars>>
notRefreshVars == <<peakVars, sortVars, schedVars, keyVars, startVars, statusVars,
    panelVars>>
notSchedVars == <<peakVars, sortVars, refreshVars, keyVars, startVars, statusVars,
    panelVars>>
\* The key handler calls into the sort engine and the redraw channel.
notKeyVars == <<peakVars, schedVars, startVars, statusVars,
    panelVars>>
notStartVars == <<peakVars, sortVars, refreshVars, schedVars, keyVars, statusVars,
    panelVars>>
notStatusVars == <<peakVars, sortVars, refreshVars, schedVars, keyVars, startVars,
    panelVars>>

----------------------------------------------------------------------------
\* What the summary, the rebuild, the step-by-step sort and the navigation
\* leave alone.
notSummaryVars == <<peakVars, sortVars, refreshVars, schedVars, keyVars,
                    startVars, statusVars, rebuildVars, raceVars, inputVars,
                    navVars>>
notRebuildVars == <<peakVars, sortVars, refreshVars, schedVars, keyVars,
                    startVars, statusVars, summaryVars, raceVars, inputVars,
                    navVars>>
notRaceVars == <<peakVars, refreshVars, schedVars, keyVars, startVars,
                 statusVars, summaryVars, rebuildVars, inputVars, navVars>>
notNavVars == <<peakVars, sortVars, refreshVars, schedVars, keyVars, startVars,
                statusVars, summaryVars, rebuildVars, raceVars, inputVars>>

----------------------------------------------------------------------------
(* Bounds of the model. *)

NumPodKeys == 1       \* pod keys (namespace/name) the cluster can hold
MaxContainers == 2    \* containers in one PodMetrics sample
MaxUsage == 1         \* largest usage one container reports (cpu and memory)

PodKeys == 1..NumPodKeys

\* The tasks that run refreshPods on the one Controller: the goroutine of
\* installPodsHandler and the UI thread in TriggerPodRefresh.
Tasks == {"ticker", "ui"}

----------------------------------------------------------------------------
(* Helpers *)

Max(a, b) == IF a >= b THEN a ELSE b

\* All orderings of a finite set, as sequences without repetition.
RECURSIVE Perms(_)
Perms(S) ==
    IF S = {} THEN {<<>>}
    ELSE UNION {{<<x>> \o p : p \in Perms(S \ {x})} : x \in S}

\* Go map assignment m[k] = v
MapSet(m, k, v) == [x \in (DOMAIN m) \cup {k} |-> IF x = k THEN v ELSE m[x]]

EmptyMap == [x \in {} |-> 0]

----------------------------------------------------------------------------
(* metricsV1beta1.PodMetrics: Containers is a nil slice or a list of usages *)

ContainerUsage == [cpu : 0..MaxUsage, mem : 0..MaxUsage]

ContainerLists ==
    UNION {[1..n -> ContainerUsage] : n \in 0..MaxContainers}

\* new(metricsV1beta1.PodMetrics): the zero value, Containers is nil.
NewPodMetrics == [IsNil |-> TRUE, Containers |-> <<>>]

\* What GetPodMetricsByName can leave in podMetrics after the error check of
\* pods_controller.go:46-49: the zero value on an error, else a sample whose
\* container list may be empty.
PodMetricsValues ==
    {NewPodMetrics} \cup {[IsNil |-> FALSE, Containers |-> cs] : cs \in ContainerLists}

RECURSIVE SumCpu(_)
SumCpu(cs) == IF cs = <<>> THEN 0 ELSE Head(cs).cpu + SumCpu(Tail(cs))

RECURSIVE SumMem(_)
SumMem(cs) == IF cs = <<>> THEN 0 ELSE Head(cs).mem + SumMem(Tail(cs))

\* podMetricsTotals: both totals start at zero; a nil slice runs no iteration.
podMetricsTotals(metrics) ==
    [totalCpu |-> SumCpu(metrics.Containers),
     totalMem |-> SumMem(metrics.Containers)]

\* The guard without its length test: a sample with an empty container list
\* would be tracked.
HasContainersNilOnly(metrics) ==
    ~metrics.IsNil

\* pods_controller.go:66
HasContainers(metrics) ==
    ~metrics.IsNil /\ Len(metrics.Containers) > 0

----------------------------------------------------------------------------
(* The pod refresh cycle, one step per access to the shared peak maps.     *)
(*                                                                         *)
(*   idle -> metrics -> track -> existsCpu [-> initCpu] -> existsMem       *)
(*        [-> initMem] -> cmpCpu [-> setCpu] -> cmpMem [-> setMem]         *)
(*        -> metrics (next pod) ... -> refreshFunc -> drawCpu -> drawMem   *)
(*        -> drawCpu (next row) ... -> idle                                *)
(*                                                                         *)
(* A local variable holds its zero value while it is dead.                 *)

podKey(t) == pods[t][idx[t]]

Goto(t, label) == pc' = [pc EXCEPT ![t] = label]

\* End of the loop body (pods_controller.go:89-103): the next pod of the
\* listing, or the return to refreshPods, which calls refreshFunc.
NextPod(t) ==
    /\ podMetrics' = [podMetrics EXCEPT ![t] = NewPodMetrics]
    /\ totalMem' = [totalMem EXCEPT ![t] = 0]
    /\ IF idx[t] < Len(pods[t])
       THEN /\ idx' = [idx EXCEPT ![t] = idx[t] + 1]
            /\ Goto(t, "metrics")
       ELSE /\ idx' = idx
            /\ Goto(t, "refreshFunc")

\* A listing that also evicts the peak records of the pods it no longer holds.
GetPodListEvicting(t) ==
    /\ ~fatal
    /\ pc[t] = "idle"
    /\ \E l \in Perms(podCache) :
          /\ pods' = [pods EXCEPT ![t] = l]
          /\ idx' = [idx EXCEPT ![t] = IF l = <<>> THEN 0 ELSE 1]
          /\ Goto(t, IF l = <<>> THEN "refreshFunc" ELSE "metrics")
    /\ PeakPodCPU' = [k \in (DOMAIN PeakPodCPU) \cap podCache |-> PeakPodCPU[k]]
    /\ PeakPodMemory' = [k \in (DOMAIN PeakPodMemory) \cap podCache |-> PeakPodMemory[k]]
    /\ UNCHANGED <<podCache, fatal, podMetrics,
                   totalCpu, totalMem, maxSeenCpu, maxSeenMem, skipped>>
    /\ UNCHANGED notPeakVars

\* A cycle starts: the ticker goroutine on its initial refresh or a tick, the
\* UI thread in TriggerPodRefresh. GetPodList reads the lister's cache, whose
\* order is not specified. (A cycle whose listing fails returns from
\* refreshPods at once and changes nothing.)
GetPodList(t) ==
    /\ ~fatal
    /\ pc[t] = "idle"
    /\ \E l \in Perms(podCache) :
          /\ pods' = [pods EXCEPT ![t] = l]
          /\ idx' = [idx EXCEPT ![t] = IF l = <<>> THEN 0 ELSE 1]
          /\ Goto(t, IF l = <<>> THEN "refreshFunc" ELSE "metrics")
    /\ UNCHANGED <<PeakPodCPU, PeakPodMemory, podCache, fatal, podMetrics,
                   totalCpu, totalMem, maxSeenCpu, maxSeenMem, skipped>>
    /\ UNCHANGED notPeakVars

\* pods_controller.go:45-49
GetPodMetricsByName(t) ==
    /\ ~fatal
    /\ pc[t] = "metrics"
    /\ \E m \in PodMetricsValues : podMetrics' = [podMetrics EXCEPT ![t] = m]
    /\ skipped' = [skipped EXCEPT ![t] = FALSE]
    /\ Goto(t, "track")
    /\ UNCHANGED <<PeakPodCPU, PeakPodMemory, podCache, fatal, pods, idx,
                   totalCpu, totalMem, maxSeenCpu, maxSeenMem>>
    /\ UNCHANGED notPeakVars

\* The history of the samples: the largest total a cycle has computed for key k
SeenMax(seen, k, q) ==
    MapSet(seen, k, IF k \in DOMAIN seen THEN Max(seen[k], q) ELSE q)

\* pods_controller.go:66-68: the guard of the peak update, and the totals.
TrackPeaks(t) ==
    /\ ~fatal
    /\ pc[t] = "track"
    /\ IF HasContainers(podMetrics[t])
       THEN LET tot == podMetricsTotals(podMetrics[t]) IN
            /\ totalCpu' = [totalCpu EXCEPT ![t] = tot.totalCpu]
            /\ totalMem' = [totalMem EXCEPT ![t] = tot.totalMem]
            /\ podMetrics' = [podMetrics EXCEPT ![t] = NewPodMetrics]
            /\ maxSeenCpu' = SeenMax(maxSeenCpu, podKey(t), tot.totalCpu)
            /\ maxSeenMem' = SeenMax(maxSeenMem, podKey(t), tot.totalMem)
            /\ idx' = idx
            /\ skipped' = skipped
            /\ Goto(t, "existsCpu")
       ELSE /\ NextPod(t)
            /\ skipped' = [skipped EXCEPT ![t] = TRUE]
            /\ UNCHANGED <<totalCpu, maxSeenCpu, maxSeenMem>>
    /\ UNCHANGED <<PeakPodCPU, PeakPodMemory, podCache, fatal, pods>>
    /\ UNCHANGED notPeakVars

\* pods_controller.go:71
ExistsCpu(t) ==
    /\ ~fatal
    /\ pc[t] = "existsCpu"
    /\ Goto(t, IF podKey(t) \in DOMAIN PeakPodCPU THEN "existsMem" ELSE "initCpu")
    /\ UNCHANGED <<PeakPodCPU, PeakPodMemory, podCache, fatal, pods, idx,
                   podMetrics, totalCpu, totalMem, maxSeenCpu, maxSeenMem, skipped>>
    /\ UNCHANGED notPeakVars

\* pods_controller.go:72
InitCpu(t) ==
    /\ ~fatal
    /\ pc[t] = "initCpu"
    /\ PeakPodCPU' = MapSet(PeakPodCPU, podKey(t), 0)
    /\ Goto(t, "existsMem")
    /\ UNCHANGED <<PeakPodMemory, podCache, fatal, pods, idx,
                   podMetrics, totalCpu, totalMem, maxSeenCpu, maxSeenMem, skipped>>
    /\ UNCHANGED notPeakVars

\* pods_controller.go:74
ExistsMem(t) ==
    /\ ~fatal
    /\ pc[t] = "existsMem"
    /\ Goto(t, IF podKey(t) \in DOMAIN PeakPodMemory THEN "cmpCpu" ELSE "initMem")
    /\ UNCHANGED <<PeakPodCPU, PeakPodMemory, podCache, fatal, pods, idx,
                   podMetrics, totalCpu, totalMem, maxSeenCpu, maxSeenMem, skipped>>
    /\ UNCHANGED notPeakVars

\* pods_controller.go:75
InitMem(t) ==
    /\ ~fatal
    /\ pc[t] = "initMem"
    /\ PeakPodMemory' = MapSet(PeakPodMemory, podKey(t), 0)
    /\ Goto(t, "cmpCpu")
    /\ UNCHANGED <<PeakPodCPU, podCache, fatal, pods, idx,
                   podMetrics, totalCpu, totalMem, maxSeenCpu, maxSeenMem, skipped>>
    /\ UNCHANGED notPeakVars

\* pods_controller.go:79: totalCpu.Cmp(*c.PeakPodCPU[podKey]) > 0
CmpCpu(t) ==
    /\ ~fatal
    /\ pc[t] = "cmpCpu"
    /\ IF totalCpu[t] > PeakPodCPU[podKey(t)]
       THEN Goto(t, "setCpu") /\ totalCpu' = totalCpu
       ELSE Goto(t, "cmpMem") /\ totalCpu' = [totalCpu EXCEPT ![t] = 0]
    /\ UNCHANGED <<PeakPodCPU, PeakPodMemory, podCache, fatal, pods, idx,
                   podMetrics, totalMem, maxSeenCpu, maxSeenMem, skipped>>
    /\ UNCHANGED notPeakVars

\* pods_controller.go:80-81
SetCpu(t) ==
    /\ ~fatal
    /\ pc[t] = "setCpu"
    /\ PeakPodCPU' = MapSet(PeakPodCPU, podKey(t), totalCpu[t])
    /\ totalCpu' = [totalCpu EXCEPT ![t] = 0]
    /\ Goto(t, "cmpMem")
    /\ UNCHANGED <<PeakPodMemory, podCache, fatal, pods, idx,
                   podMetrics, totalMem, maxSeenCpu, maxSeenMem, skipped>>
    /\ UNCHANGED notPeakVars

\* pods_controller.go:83: totalMem.Cmp(*c.PeakPodMemory[podKey]) > 0
CmpMem(t) ==
    /\ ~fatal
    /\ pc[t] = "cmpMem"
    /\ IF totalMem[t] > PeakPodMemory[podKey(t)]
       THEN /\ Goto(t, "setMem")
            /\ UNCHANGED <<idx, podMetrics, totalMem>>
       ELSE NextPod(t)
    /\ UNCHANGED <<PeakPodCPU, PeakPodMemory, podCache, fatal, pods,
                   totalCpu, maxSeenCpu, maxSeenMem, skipped>>
    /\ UNCHANGED notPeakVars

\* pods_controller.go:84-85
SetMem(t) ==
    /\ ~fatal
    /\ pc[t] = "setMem"
    /\ PeakPodMemory' = MapSet(PeakPodMemory, podKey(t), totalMem[t])
    /\ NextPod(t)
    /\ UNCHANGED <<PeakPodCPU, podCache, fatal, pods,
                   totalCpu, maxSeenCpu, maxSeenMem, skipped>>
    /\ UNCHANGED notPeakVars

\* refreshPods (pods_controller.go:140) hands the models to the registered
\* callback, which draws them on the calling task: podPanel.DrawBody.
refreshFunc(t) ==
    /\ ~fatal
    /\ pc[t] = "refreshFunc"
    /\ idx' = [idx EXCEPT ![t] = IF pods[t] = <<>> THEN 0 ELSE 1]
    /\ skipped' = [skipped EXCEPT ![t] = FALSE]
    /\ Goto(t, IF pods[t] = <<>> THEN "idle" ELSE "drawCpu")
    /\ UNCHANGED <<PeakPodCPU, PeakPodMemory, podCache, fatal, pods,
                   podMetrics, totalCpu, totalMem, maxSeenCpu, maxSeenMem>>
    /\ UNCHANGED notPeakVars

\* podPanel.DrawBody, column CPU: the read of PeakPodCPU[podKey]
DrawBodyCpu(t) ==
    /\ ~fatal
    /\ pc[t] = "drawCpu"
    /\ Goto(t, "drawMem")
    /\ UNCHANGED <<PeakPodCPU, PeakPodMemory, podCache, fatal, pods, idx,
                   podMetrics, totalCpu, totalMem, maxSeenCpu, maxSeenMem, skipped>>
    /\ UNCHANGED notPeakVars

\* podPanel.DrawBody, column MEMORY: the read of PeakPodMemory[podKey], then
\* the next row; after the last row the cycle is over.
DrawBodyMem(t) ==
    /\ ~fatal
    /\ pc[t] = "drawMem"
    /\ IF idx[t] < Len(pods[t])
       THEN /\ idx' = [idx EXCEPT ![t] = idx[t] + 1]
            /\ pods' = pods
            /\ Goto(t, "drawCpu")
       ELSE /\ idx' = [idx EXCEPT ![t] = 0]
            /\ pods' = [pods EXCEPT ![t] = <<>>]
            /\ Goto(t, "idle")
    /\ UNCHANGED <<PeakPodCPU, PeakPodMemory, podCache, fatal,
                   podMetrics, totalCpu, totalMem, maxSeenCpu, maxSeenMem, skipped>>
    /\ UNCHANGED notPeakVars

\* The informer adds a pod to its cache or deletes one from it.
PodAdded(k) ==
    /\ ~fatal
    /\ k \notin podCache
    /\ podCache' = podCache \cup {k}
    /\ UNCHANGED <<PeakPodCPU, PeakPodMemory, fatal, pc, pods, idx,
                   podMetrics, totalCpu, totalMem, maxSeenCpu, maxSeenMem, skipped>>
    /\ UNCHANGED notPeakVars

PodDeleted(k) ==
    /\ ~fatal
    /\ k \in podCache
    /\ podCache' = podCache \ {k}
    /\ UNCHANGED <<PeakPodCPU, PeakPodMemory, fatal, pc, pods, idx,
                   podMetrics, totalCpu, totalMem, maxSeenCpu, maxSeenMem, skipped>>
    /\ UNCHANGED notPeakVars

\* The positions at which a task's next step reads, or writes, a peak map.
CpuReads == {"existsCpu", "cmpCpu", "drawCpu"}
CpuWrites == {"initCpu", "setCpu"}
MemReads == {"existsMem", "cmpMem", "drawMem"}
MemWrites == {"initMem", "setMem"}

\* Two tasks are about to access the same Go map with no synchronisation
\* between them, at least one of them writing: a data race.
MapRace(reads, writes) ==
    \E t1, t2 \in Tasks :
        /\ t1 # t2
        /\ pc[t1] \in writes
        /\ pc[t2] \in reads \cup writes

PeakMapRace == MapRace(CpuReads, CpuWrites) \/ MapRace(MemReads, MemWrites)

\* A racing map access either takes effect as one of the interleaved steps
\* above, or the Go runtime detects it ("fatal error: concurrent map
\* writes") and ends the process.
RuntimeFatal ==
    /\ ~fatal
    /\ PeakMapRace
    /\ fatal' = TRUE
    /\ UNCHANGED <<PeakPodCPU, PeakPodMemory, podCache, pc, pods, idx,
                   podMetrics, totalCpu, totalMem, maxSeenCpu, maxSeenMem, skipped>>
    /\ UNCHANGED notPeakVars

\* The callers of Application.Refresh: the UI thread (key handlers) and the
\* scheduler goroutine (its refresh callback).
RefreshCallers == {"ui", "ticker"}

\* application.New (app_ctrl.go:37-49): an empty channel, nobody inside
\* Refresh, the consumer waiting.
RefreshAtRest ==
    /\ refreshQ = 0
    /\ refreshPc = [c \in RefreshCallers |-> "idle"]
    /\ timedOut = [c \in RefreshCallers |-> FALSE]
    /\ consumer = "range"
    /\ refreshCalls = 0
    /\ draws = 0
    /\ sinceDraw = 0
    /\ lastRefresh = "none"

\* The pod scheduler before Start installs it.
SchedAtRest ==
    /\ ctxDone = FALSE
    /\ podRefreshFunc = TRUE
    /\ schedPc = "idle"
    /\ tickerC = 0
    /\ ticksSent = 0
    /\ ticksReceived = 0
    /\ cyclesStarted = 0
    /\ callbacks = 0
    /\ cyclePhase = "none"
    /\ cycleListed = 0
    /\ cycleBuilt = 0
    /\ cancelledMidBuild = FALSE
    /\ lastCycle = [err |-> FALSE, delivered |-> FALSE, cancelledMidBuild |-> FALSE]

\* No key event is being handled; the interval is newController's.
KeyAtRest ==
    /\ keyPc = "idle"
    /\ keyField = ""
    /\ keyLog = <<>>
    /\ keyEvents = 0
    /\ forcedListed = 0
    /\ forcedBuilt = 0
    /\ forcedExpired = FALSE
    /\ builtAtExpiry = -1
    /\ forcedCalls = 0
    /\ shown = -1
    /\ lastForced = [err |-> FALSE, calls |-> 0, size |-> 0, listed |-> 0,
                     builtAtExpiry |-> -1, ticks |-> 0]
    /\ PodsRefreshInterval = 3

\* Start has not been called.
StartAtRest ==
    /\ startPc = "notStarted"
    /\ metricsAvailable = FALSE
    /\ coreSync = "pending"
    /\ nonCore = "none"
    /\ installed = {}
    /\ processPanic = "none"

\* No pod view is being built on its own.
StatusAtRest ==
    /\ statusPod = [ContainerStatuses |-> <<>>, Ready |-> FALSE]
    /\ statusView = [built |-> FALSE]

\* No resource summary is being built or drawn.
SummaryAtRest ==
    /\ specPod = [Containers |-> <<>>, InitContainers |-> <<>>,
                  Overhead |-> [IsNilList |-> TRUE]]
    /\ nodeAlloc = <<>>
    /\ metricsDisabled = FALSE
    /\ summaryView = [built |-> FALSE]
    /\ cells = [drawn |-> FALSE]

\* No view is being rebuilt.
RebuildAtRest ==
    /\ now = 0
    /\ rawInput = <<>>
    /\ builtViews = <<>>

\* No sort is running step by step.
RaceAtRest ==
    /\ racePc = "idle"
    /\ localDirection = 0
    /\ sortI = 0
    /\ sortJ = 0
    /\ statesDuring = {}
    /\ setCalls = 0

\* No key event has arrived.
NoEvent == [Key |-> "none", Rune |-> 0, Mods |-> {}]
InputAtRest ==
    /\ visibleView = 0
    /\ event = NoEvent
    /\ eventPending = FALSE
    /\ inputEffect = "none"

\* The pod list is not navigated.
NavAtRest ==
    /\ navRow = 0
    /\ navRowCount = 0
    /\ navHeight = 0
    /\ navOffset = 0
    /\ navLast = [key |-> "none", moved |-> FALSE]

PanelAtRest ==
    SummaryAtRest /\ RebuildAtRest /\ RaceAtRest /\ InputAtRest /\ NavAtRest

\* newController (client_controller.go:58-72): empty peak maps; the sort
\* engine plays no part in this specification.
Init ==
    /\ PeakPodCPU = EmptyMap
    /\ PeakPodMemory = EmptyMap
    /\ podCache \in SUBSET PodKeys
    /\ fatal = FALSE
    /\ pc = [t \in Tasks |-> "idle"]
    /\ pods = [t \in Tasks |-> <<>>]
    /\ idx = [t \in Tasks |-> 0]
    /\ podMetrics = [t \in Tasks |-> NewPodMetrics]
    /\ totalCpu = [t \in Tasks |-> 0]
    /\ totalMem = [t \in Tasks |-> 0]
    /\ maxSeenCpu = EmptyMap
    /\ maxSeenMem = EmptyMap
    /\ skipped = [t \in Tasks |-> FALSE]
    /\ currentSortField = "NAMESPACE"
    /\ currentSortDirection = 1
    /\ podModels = <<>>
    /\ podInputs = <<>>
    /\ nanBits = 65528
    /\ lastOp = [op |-> "none", field |-> ""]
    /\ RefreshAtRest
    /\ SchedAtRest
    /\ KeyAtRest /\ StartAtRest /\ StatusAtRest /\ PanelAtRest

Next ==
    \/ \E t \in Tasks : GetPodList(t)
    \/ \E t \in Tasks : GetPodMetricsByName(t)
    \/ \E t \in Tasks : TrackPeaks(t)
    \/ \E t \in Tasks : ExistsCpu(t)
    \/ \E t \in Tasks : InitCpu(t)
    \/ \E t \in Tasks : ExistsMem(t)
    \/ \E t \in Tasks : InitMem(t)
    \/ \E t \in Tasks : CmpCpu(t)
    \/ \E t \in Tasks : SetCpu(t)
    \/ \E t \in Tasks : CmpMem(t)
    \/ \E t \in Tasks : SetMem(t)
    \/ \E t \in Tasks : refreshFunc(t)
    \/ \E t \in Tasks : DrawBodyCpu(t)
    \/ \E t \in Tasks : DrawBodyMem(t)
    \/ \E k \in PodKeys : PodAdded(k)
    \/ \E k \in PodKeys : PodDeleted(k)
    \/ RuntimeFatal

Spec == Init /\ [][Next]_vars

----------------------------------------------------------------------------
(* Peak records: C1 - C5, under Spec *)

\* No cycle is in progress and the process is alive.
Quiescent == ~fatal /\ \A t \in Tasks : pc[t] = "idle"

\* C1: for every pod key the recorded peak CPU and the recorded peak memory
\* never decrease from one state to the next, whatever the interleaving of
\* the ticker's cycles and the forced refreshes.
PeaksNeverDecrease ==
    [][/\ \A k \in DOMAIN PeakPodCPU :
             k \in DOMAIN PeakPodCPU' /\ PeakPodCPU'[k] >= PeakPodCPU[k]
       /\ \A k \in DOMAIN PeakPodMemory :
             k \in DOMAIN PeakPodMemory' /\ PeakPodMemory'[k] >= PeakPodMemory[k]]_vars

\* C2: in no reachable state are two tasks about to access the same peak map
\* at the same time with at least one of them writing.
NoConcurrentPeakAccess == ~PeakMapRace

\* C3: once the cycles that sampled a pod are over, its stored peak equals
\* the largest total any of them computed, for CPU and for memory.
PeakIsMaxOfSamples ==
    Quiescent =>
        /\ \A k \in DOMAIN maxSeenCpu :
              k \in DOMAIN PeakPodCPU /\ PeakPodCPU[k] = maxSeenCpu[k]
        /\ \A k \in DOMAIN maxSeenMem :
              k \in DOMAIN PeakPodMemory /\ PeakPodMemory[k] = maxSeenMem[k]

\* The pod's metrics are missing: the fetch failed (the zero PodMetrics), or
\* the sample lists no container.
MetricsMissing(m) == m.IsNil \/ m.Containers = <<>>

\* C4: the step of a cycle that finds the current pod's metrics missing
\* changes neither peak map (no record changed, none created) and passes
\* over the peak update of that pod, going on to the next pod or to the
\* callback.
MissingMetricsKeepPeaks ==
    [][\A t \in Tasks :
          (pc[t] = "track" /\ MetricsMissing(podMetrics[t]) /\ pc'[t] # "track")
          => /\ PeakPodCPU' = PeakPodCPU
             /\ PeakPodMemory' = PeakPodMemory
             /\ pc'[t] \in {"metrics", "refreshFunc"}]_vars

\* C4 witness: a cycle has passed over a pod whose metrics were missing while
\* positive peaks were on record for it, and the records are as they were.
MissingMetricsSeen ==
    \E t \in Tasks :
        /\ skipped[t]
        /\ podKey(t) \in DOMAIN PeakPodCPU
        /\ podKey(t) \in DOMAIN PeakPodMemory
        /\ PeakPodCPU[podKey(t)] > 0
        /\ PeakPodMemory[podKey(t)] > 0

\* C5: a key present in PeakPodCPU or PeakPodMemory is present in the next
\* state, whatever step is taken.
PeakRecordsRetained ==
    [][/\ DOMAIN PeakPodCPU \subseteq DOMAIN PeakPodCPU'
       /\ DOMAIN PeakPodMemory \subseteq DOMAIN PeakPodMemory']_vars

\* C5 witness: a cycle has listed no pods and reached its callback while the
\* maps hold the records of a pod that has left the cache.
RecordOfDepartedPod ==
    \E t \in Tasks, k \in PodKeys :
        /\ pc[t] = "refreshFunc"
        /\ k \notin podCache
        /\ pods[t] = <<>>
        /\ k \in DOMAIN PeakPodCPU
        /\ k \in DOMAIN PeakPodMemory

----------------------------------------------------------------------------
(* views/model: strings, quantities and durations                          *)

\* A Go string is the sequence of its bytes.
StrEmpty == <<>>
StrRunning == <<82, 117, 110, 110, 105, 110, 103>>
StrNotReady == <<78, 111, 116, 82, 101, 97, 100, 121>>
StrCompleted == <<67, 111, 109, 112, 108, 101, 116, 101, 100>>
StrSig == <<83, 105, 103, 58>>
StrExit == <<69, 120, 105, 116, 58>>
StrDots == <<46, 46, 46>>

IsDigit(c) == c >= 48 /\ c <= 57

\* strings.Compare, and the < of Go strings: bytewise lexicographic order.
RECURSIVE Compare(_, _)
Compare(a, b) ==
    IF a = <<>> /\ b = <<>> THEN 0
    ELSE IF a = <<>> THEN -1
    ELSE IF b = <<>> THEN 1
    ELSE IF Head(a) < Head(b) THEN -1
    ELSE IF Head(a) > Head(b) THEN 1
    ELSE Compare(Tail(a), Tail(b))

\* fmt's %d of a number that is not negative.
RECURSIVE Itoa(_)
Itoa(n) == IF n < 10 THEN <<48 + n>> ELSE Itoa(n \div 10) \o <<48 + (n % 10)>>

\* A *resource.Quantity: the nil pointer, or a quantity.  CPU quantities
\* count nanocores (the unit the metrics API reports), memory quantities
\* count bytes.
NilQuantity == [IsNil |-> TRUE, Value |-> 0]
NewQuantity(v) == [IsNil |-> FALSE, Value |-> v]

\* Quantity.MilliValue of a CPU quantity: millicores, rounded up.
MilliValue(q) == (q.Value + 999999) \div 1000000

\* Quantity.Value of a memory quantity: whole bytes.
Value(q) == q.Value

\* duration.HumanDuration of a duration of d whole seconds, d >= 0.
HumanDuration(d) ==
    LET seconds == d
        minutes == d \div 60
        hours == d \div 3600
    IN  IF seconds < 60 * 2 THEN Itoa(seconds) \o <<115>>
        ELSE IF minutes < 10 THEN
            IF seconds % 60 = 0 THEN Itoa(minutes) \o <<109>>
            ELSE Itoa(minutes) \o <<109>> \o Itoa(seconds % 60) \o <<115>>
        ELSE IF minutes < 60 * 3 THEN Itoa(minutes) \o <<109>>
        ELSE IF hours < 8 THEN
            IF minutes % 60 = 0 THEN Itoa(hours) \o <<104>>
            ELSE Itoa(hours) \o <<104>> \o Itoa(minutes % 60) \o <<109>>
        ELSE IF hours < 48 THEN Itoa(hours) \o <<104>>
        ELSE IF hours < 24 * 8 THEN
            IF hours % 24 = 0 THEN Itoa(hours \div 24) \o <<100>>
            ELSE Itoa(hours \div 24) \o <<100>> \o Itoa(hours % 24) \o <<104>>
        ELSE IF hours < 24 * 365 * 2 THEN Itoa(hours \div 24) \o <<100>>
        ELSE IF hours < 24 * 365 * 8 THEN
            IF (hours \div 24) % 365 = 0 THEN Itoa((hours \div 24) \div 365) \o <<121>>
            ELSE Itoa((hours \div 24) \div 365) \o <<121>>
                 \o Itoa((hours \div 24) % 365) \o <<100>>
        ELSE Itoa((hours \div 24) \div 365) \o <<121>>

\* timeSince (a creation timestamp is zero, or lies age seconds in the past).
timeSince(ts) == IF ts.IsZero THEN StrDots ELSE HumanDuration(ts.Age)

\* The number of leading bytes of s that are digits / that belong to a unit.
RECURSIVE LeadingDigits(_)
LeadingDigits(s) ==
    IF s # <<>> /\ IsDigit(Head(s)) THEN 1 + LeadingDigits(Tail(s)) ELSE 0

RECURSIVE LeadingUnit(_)
LeadingUnit(s) ==
    IF s # <<>> /\ ~IsDigit(Head(s)) /\ Head(s) # 46
    THEN 1 + LeadingUnit(Tail(s)) ELSE 0

RECURSIVE DigitsValue(_, _)
DigitsValue(s, acc) ==
    IF s = <<>> THEN acc ELSE DigitsValue(Tail(s), 10 * acc + (Head(s) - 48))

\* Seconds in one unit of time.ParseDuration's unit map (the units below a
\* second never occur in what timeSince returns); 0 for an unknown unit.
UnitSeconds(u) ==
    IF u = <<115>> THEN 1
    ELSE IF u = <<109>> THEN 60
    ELSE IF u = <<104>> THEN 3600
    ELSE 0

\* time.ParseDuration on a string without sign or fraction: the duration in
\* seconds, or an error.
RECURSIVE ParseFrom(_, _)
ParseFrom(s, acc) ==
    IF s = <<>> THEN [err |-> FALSE, seconds |-> acc]
    ELSE LET nd == LeadingDigits(s)
             rest == SubSeq(s, nd + 1, Len(s))
             nu == LeadingUnit(rest)
             unit == SubSeq(rest, 1, nu)
         IN  IF nd = 0 \/ nu = 0 \/ UnitSeconds(unit) = 0
             THEN [err |-> TRUE, seconds |-> 0]
             ELSE ParseFrom(SubSeq(rest, nu + 1, Len(rest)),
                            acc + DigitsValue(SubSeq(s, 1, nd), 0) * UnitSeconds(unit))

\* ti, _ := time.ParseDuration(s): the error is dropped, the duration of a
\* failed parse is 0.
ParseDuration(s) ==
    IF s = <<>> THEN 0
    ELSE IF s = <<48>> THEN 0
    ELSE ParseFrom(s, 0).seconds

----------------------------------------------------------------------------
(* views/model: building a pod view                                        *)

\* getContainerStatusSummary: one pass over the container statuses.
RECURSIVE SummaryFold(_, _)
SummaryFold(containerStats, summary) ==
    IF containerStats = <<>> THEN summary
    ELSE LET stat == Head(containerStats)
             s1 == [summary EXCEPT !.Restarts = @ + stat.RestartCount]
             s2 == IF stat.Ready /\ stat.State = "Running"
                       THEN [s1 EXCEPT !.Ready = @ + 1,
                                       !.Status = StrRunning,
                                       !.SomeRunning = TRUE]
                   ELSE IF stat.State = "Waiting"
                       THEN [s1 EXCEPT !.Status = stat.Reason]
                   ELSE IF stat.State = "Terminated" /\ stat.Reason # StrEmpty
                       THEN [s1 EXCEPT !.Status = stat.Reason]
                   ELSE IF stat.State = "Terminated" /\ stat.Reason = StrEmpty
                       THEN IF stat.Signal # 0
                                THEN [s1 EXCEPT !.Status = StrSig \o Itoa(stat.Signal)]
                                ELSE [s1 EXCEPT !.Status = StrExit \o Itoa(stat.ExitCode)]
                   ELSE s1
         IN  SummaryFold(Tail(containerStats), s2)

\* A summary whose Ready counts every running container.
getContainerStatusSummaryRunning(containerStats) ==
    [SummaryFold(containerStats,
                 [Ready |-> 0, Total |-> Len(containerStats), Restarts |-> 0,
                  Status |-> StrEmpty, SomeRunning |-> FALSE])
        EXCEPT !.Ready = Cardinality({i \in 1..Len(containerStats) :
                                          containerStats[i].State = "Running"})]

\* getContainerStatusSummary (part_002:271-293).
getContainerStatusSummary(containerStats) ==
    SummaryFold(containerStats,
                [Ready |-> 0, Total |-> Len(containerStats), Restarts |-> 0,
                 Status |-> StrEmpty, SomeRunning |-> FALSE])

podIsReady(conds) ==
    \E i \in 1..Len(conds) : conds[i].Type = "Ready" /\ conds[i].Status = "True"

\* NewPodModel: the fields of the view that SortPodModels and the usage
\* columns read.  The usage totals come from podMetricsTotals, which starts
\* both at a quantity of 0 whatever the metrics hold.
NewPodModel(pod, metrics) ==
    LET totals == podMetricsTotals(metrics)
        summary == getContainerStatusSummary(pod.ContainerStatuses)
        status == IF (summary.Status = StrEmpty \/ summary.Status = StrCompleted)
                     /\ summary.SomeRunning
                  THEN IF podIsReady(pod.Conditions) THEN StrRunning ELSE StrNotReady
                  ELSE summary.Status
    IN  [Namespace |-> pod.Namespace,
         Name |-> pod.Name,
         Status |-> status,
         TimeSince |-> timeSince(pod.CreationTimestamp),
         IP |-> pod.PodIP,
         Node |-> pod.NodeName,
         Volumes |-> pod.Volumes,
         PodUsageCpuQty |-> NewQuantity(totals.totalCpu),
         PodUsageMemQty |-> NewQuantity(totals.totalMem),
         ReadyContainers |-> summary.Ready,
         TotalContainers |-> summary.Total,
         Restarts |-> summary.Restarts]

----------------------------------------------------------------------------
(* views/model: the comparator of SortPodModels and sort.Slice             *)

SortFields == {"NAMESPACE", "POD", "STATUS", "AGE", "NODE", "READY",
               "RESTARTS", "CPU", "MEMORY", "IP", "VOLS"}
SortAscending == 1
SortDescending == -1

\* float64(ready) / float64(total) is NaN for 0/0.
IsNaN(ready, total) == total = 0

\* ratioI != ratioJ on float64: a NaN differs from everything, itself included.
RatioDiffers(ri, ti, rj, tj) ==
    IsNaN(ri, ti) \/ IsNaN(rj, tj) \/ ri * tj # rj * ti

\* The top 16 bits of math.Float64bits(ready/total): sign, exponent and four
\* bits of mantissa.  The other 48 bits are zero for the ratios of a pod with
\* at most two containers (0, 1/2, 1) and for the NaN a division produces,
\* whose sign bit depends on the processor.
Float64bits(ready, total) ==
    CASE total = 0 -> nanBits
      [] total # 0 /\ ready = 0 -> 0
      [] total # 0 /\ ready = total -> 16368
      [] total # 0 /\ ready # 0 /\ 2 * ready = total -> 16352

\* int(x - y) on the words above: the difference wraps, and is read as a
\* signed number.
IntOfDiff(x, y) ==
    LET m == (x - y + 65536) % 65536
    IN  IF m >= 32768 THEN m - 65536 ELSE m

\* The tie-break every field's case ends with.
LessByName(pi, pj, direction) == direction * Compare(pi.Name, pj.Name) < 0

\* The usage cases (CPU through MilliValue, MEMORY through Value).
LessByUsage(qi, qj, vi, vj, pi, pj, direction) ==
    IF qi.IsNil /\ ~qj.IsNil THEN direction > 0
    ELSE IF ~qi.IsNil /\ qj.IsNil THEN direction < 0
    ELSE IF qi.IsNil /\ qj.IsNil THEN LessByName(pi, pj, direction)
    ELSE IF vi # vj THEN direction * (vi - vj) < 0
    ELSE LessByName(pi, pj, direction)

\* The less function SortPodModels hands to sort.Slice, on the elements pi
\* and pj, with the field and the direction in force.
Less(pi, pj, field, direction) ==
    CASE field = "NAMESPACE" ->
            IF pi.Namespace # pj.Namespace
            THEN direction * Compare(pi.Namespace, pj.Namespace) < 0
            ELSE LessByName(pi, pj, direction)
      [] field = "POD" -> LessByName(pi, pj, direction)
      [] field = "STATUS" ->
            IF pi.Status # pj.Status
            THEN direction * Compare(pi.Status, pj.Status) < 0
            ELSE LessByName(pi, pj, direction)
      [] field = "AGE" ->
            LET ti == ParseDuration(pi.TimeSince)
                tj == ParseDuration(pj.TimeSince)
            IN  IF ti # tj THEN direction * (tj - ti) < 0
                ELSE LessByName(pi, pj, direction)
      [] field = "NODE" ->
            IF pi.Node # pj.Node
            THEN direction * Compare(pi.Node, pj.Node) < 0
            ELSE LessByName(pi, pj, direction)
      [] field = "READY" ->
            IF RatioDiffers(pi.ReadyContainers, pi.TotalContainers,
                            pj.ReadyContainers, pj.TotalContainers)
            THEN direction
                   * IntOfDiff(Float64bits(pj.ReadyContainers, pj.TotalContainers),
                               Float64bits(pi.ReadyContainers, pi.TotalContainers)) < 0
            ELSE LessByName(pi, pj, direction)
      [] field = "RESTARTS" ->
            IF pi.Restarts # pj.Restarts
            THEN direction * (pi.Restarts - pj.Restarts) < 0
            ELSE LessByName(pi, pj, direction)
      [] field = "CPU" ->
            LessByUsage(pi.PodUsageCpuQty, pj.PodUsageCpuQty,
                        MilliValue(pi.PodUsageCpuQty), MilliValue(pj.PodUsageCpuQty),
                        pi, pj, direction)
      [] field = "MEMORY" ->
            LessByUsage(pi.PodUsageMemQty, pj.PodUsageMemQty,
                        Value(pi.PodUsageMemQty), Value(pj.PodUsageMemQty),
                        pi, pj, direction)
      [] field = "IP" ->
            IF pi.IP # pj.IP
            THEN direction * Compare(pi.IP, pj.IP) < 0
            ELSE LessByName(pi, pj, direction)
      [] field = "VOLS" ->
            IF pi.Volumes # pj.Volumes
            THEN direction * (pi.Volumes - pj.Volumes) < 0
            ELSE LessByName(pi, pj, direction)
      [] OTHER ->
            IF pi.Namespace # pj.Namespace
            THEN Compare(pi.Namespace, pj.Namespace) < 0
            ELSE Compare(pi.Name, pj.Name) < 0

Swap(data, i, j) == [data EXCEPT ![i] = data[j], ![j] = data[i]]

\* sort.Slice on fewer than 12 elements is an insertion sort: element i sinks
\* while less(j, j-1) holds.
\* An insertion that also sinks past elements it does not precede strictly
\* less: an unstable sort.
RECURSIVE SinkPastTies(_, _, _, _)
SinkPastTies(data, j, field, direction) ==
    IF j > 1 /\ ~Less(data[j - 1], data[j], field, direction)
    THEN SinkPastTies(Swap(data, j, j - 1), j - 1, field, direction)
    ELSE data

RECURSIVE Sink(_, _, _, _)
Sink(data, j, field, direction) ==
    IF j > 1 /\ Less(data[j], data[j - 1], field, direction)
    THEN Sink(Swap(data, j, j - 1), j - 1, field, direction)
    ELSE data

RECURSIVE InsertionSort(_, _, _, _)
InsertionSort(data, i, field, direction) ==
    IF i > Len(data) THEN data
    ELSE InsertionSort(Sink(data, i, field, direction), i + 1, field, direction)

sortSlice(data, field, direction) == InsertionSort(data, 2, field, direction)

----------------------------------------------------------------------------
(* views/model: the pods of the cluster and the sort engine's operations   *)

StrDefault == <<100, 101, 102, 97, 117, 108, 116>>                      \* "default"
StrKubeSystem == <<107, 117, 98, 101, 45, 115, 121, 115, 116, 101, 109>> \* "kube-system"
StrApi == <<97, 112, 105>>                                               \* "api"
StrDb == <<100, 98>>                                                     \* "db"
StrNode1 == <<110, 111, 100, 101, 45, 49>>                               \* "node-1"
StrNode2 == <<110, 111, 100, 101, 45, 50>>                               \* "node-2"
StrIP1 == <<49, 48, 46, 48, 46, 48, 46, 49>>                             \* "10.0.0.1"
StrIP2 == <<49, 48, 46, 48, 46, 48, 46, 50>>                             \* "10.0.0.2"
StrIP10 == <<49, 48, 46, 48, 46, 48, 46, 49, 48>>                        \* "10.0.0.10"
StrCrashLoopBackOff ==
    <<67, 114, 97, 115, 104, 76, 111, 111, 112, 66, 97, 99, 107, 79, 102, 102>>

\* Namespace and name of the pods a listing can hold: two pods of one
\* namespace, and a pod of another namespace with the name of one of them.
PodIdentities ==
    {[Namespace |-> StrDefault, Name |-> StrApi],
     [Namespace |-> StrDefault, Name |-> StrDb],
     [Namespace |-> StrKubeSystem, Name |-> StrApi]}

RunningContainer(ready, restarts) ==
    [Ready |-> ready, State |-> "Running", Reason |-> StrEmpty,
     Signal |-> 0, ExitCode |-> 0, RestartCount |-> restarts]

WaitingContainer(reason, restarts) ==
    [Ready |-> FALSE, State |-> "Waiting", Reason |-> reason,
     Signal |-> 0, ExitCode |-> 0, RestartCount |-> restarts]

\* What the API server can hold about one pod, with what the metrics fetch
\* for it returns:
\*   - a pod not yet scheduled, whose metrics fetch fails;
\*   - an idle pod, one container, a sample that reports zero usage;
\*   - a pod with one of two containers ready, 49.1m CPU and 64Mi;
\*   - a pod three days old, both containers ready, 100m CPU and 128Mi;
\*   - a pod in CrashLoopBackOff, 50m CPU and 64Mi.
PodCases ==
    {[ContainerStatuses |-> <<>>, Conditions |-> <<>>,
      PodIP |-> StrEmpty, NodeName |-> StrEmpty, Volumes |-> 0,
      CreationTimestamp |-> [IsZero |-> TRUE, Age |-> 0],
      Metrics |-> NewPodMetrics],
     [ContainerStatuses |-> <<RunningContainer(TRUE, 0)>>,
      Conditions |-> <<[Type |-> "Ready", Status |-> "True"]>>,
      PodIP |-> StrIP1, NodeName |-> StrNode1, Volumes |-> 1,
      CreationTimestamp |-> [IsZero |-> FALSE, Age |-> 30],
      Metrics |-> [IsNil |-> FALSE, Containers |-> <<[cpu |-> 0, mem |-> 0]>>]],
     [ContainerStatuses |-> <<RunningContainer(TRUE, 0), RunningContainer(FALSE, 1)>>,
      Conditions |-> <<[Type |-> "Ready", Status |-> "False"]>>,
      PodIP |-> StrIP2, NodeName |-> StrNode1, Volumes |-> 1,
      CreationTimestamp |-> [IsZero |-> FALSE, Age |-> 300],
      Metrics |-> [IsNil |-> FALSE,
                   Containers |-> <<[cpu |-> 49100000, mem |-> 67108864],
                                    [cpu |-> 0, mem |-> 0]>>]],
     [ContainerStatuses |-> <<RunningContainer(TRUE, 2), RunningContainer(TRUE, 0)>>,
      Conditions |-> <<[Type |-> "Ready", Status |-> "True"]>>,
      PodIP |-> StrIP10, NodeName |-> StrNode2, Volumes |-> 2,
      CreationTimestamp |-> [IsZero |-> FALSE, Age |-> 259200],
      Metrics |-> [IsNil |-> FALSE,
                   Containers |-> <<[cpu |-> 60000000, mem |-> 67108864],
                                    [cpu |-> 40000000, mem |-> 67108864]>>]],
     [ContainerStatuses |-> <<WaitingContainer(StrCrashLoopBackOff, 2)>>,
      Conditions |-> <<[Type |-> "Ready", Status |-> "False"]>>,
      PodIP |-> StrIP2, NodeName |-> StrNode2, Volumes |-> 1,
      CreationTimestamp |-> [IsZero |-> FALSE, Age |-> 10800],
      Metrics |-> [IsNil |-> FALSE,
                   Containers |-> <<[cpu |-> 50000000, mem |-> 67108864]>>]]}

\* A pod of the listing and the metrics fetched for it.
PodInput(id, c) ==
    [pod |-> [Namespace |-> id.Namespace, Name |-> id.Name,
              ContainerStatuses |-> c.ContainerStatuses,
              Conditions |-> c.Conditions,
              PodIP |-> c.PodIP, NodeName |-> c.NodeName,
              Volumes |-> c.Volumes,
              CreationTimestamp |-> c.CreationTimestamp],
     podMetrics |-> c.Metrics]

\* The listings GetPodModels can iterate: pods of distinct identities, in
\* any order (the lister promises none).
PodListings ==
    UNION {{[i \in 1..Len(ids) |-> PodInput(ids[i], cs[i])] :
               cs \in [1..Len(ids) -> PodCases]} :
           ids \in UNION {Perms(S) : S \in SUBSET PodIdentities}}

\* GetPodModels (pods_controller.go:43-104): one view per pod of the listing.
BuildPodModels(inputs) ==
    [i \in 1..Len(inputs) |-> NewPodModel(inputs[i].pod, inputs[i].podMetrics)]

\* SetSortField with the direction kept when the field changes.
SetSortFieldKeepsDirection(field) ==
    /\ IF currentSortField = field
       THEN /\ currentSortDirection' = currentSortDirection * (-1)
            /\ currentSortField' = currentSortField
       ELSE /\ currentSortField' = field
            /\ currentSortDirection' = currentSortDirection
    /\ lastOp' = [op |-> "SetSortField", field |-> field]
    /\ UNCHANGED <<podModels, podInputs, nanBits>>
    /\ UNCHANGED notSortVars

\* SetSortField (part_002:103-112).
SetSortField(field) ==
    /\ IF currentSortField = field
       THEN /\ currentSortDirection' = currentSortDirection * (-1)
            /\ currentSortField' = currentSortField
       ELSE /\ currentSortField' = field
            /\ currentSortDirection' = SortAscending
    /\ lastOp' = [op |-> "SetSortField", field |-> field]
    /\ UNCHANGED <<podModels, podInputs, nanBits>>
    /\ UNCHANGED notSortVars

\* SortPodModels (part_002:114-224) on the collection, in place.
SortPodModels ==
    /\ podModels' = sortSlice(podModels, currentSortField, currentSortDirection)
    /\ lastOp' = [op |-> "SortPodModels", field |-> currentSortField]
    /\ UNCHANGED <<currentSortField, currentSortDirection, podInputs, nanBits>>
    /\ UNCHANGED notSortVars

\* The package's initial sort state (part_002:87-90) and a collection fresh
\* from GetPodModels; no refresh cycle is running.
InitSort ==
    /\ currentSortField = "NAMESPACE"
    /\ currentSortDirection = SortAscending
    /\ podInputs \in PodListings
    /\ podModels = BuildPodModels(podInputs)
    /\ nanBits \in {32760, 65528}
    /\ lastOp = [op |-> "none", field |-> ""]
    /\ PeakPodCPU = EmptyMap
    /\ PeakPodMemory = EmptyMap
    /\ podCache = {}
    /\ fatal = FALSE
    /\ pc = [t \in Tasks |-> "idle"]
    /\ pods = [t \in Tasks |-> <<>>]
    /\ idx = [t \in Tasks |-> 0]
    /\ podMetrics = [t \in Tasks |-> NewPodMetrics]
    /\ totalCpu = [t \in Tasks |-> 0]
    /\ totalMem = [t \in Tasks |-> 0]
    /\ maxSeenCpu = EmptyMap
    /\ maxSeenMem = EmptyMap
    /\ skipped = [t \in Tasks |-> FALSE]
    /\ RefreshAtRest
    /\ SchedAtRest
    /\ KeyAtRest /\ StartAtRest /\ StatusAtRest /\ PanelAtRest

NextSort ==
    \/ \E field \in SortFields : SetSortField(field)
    \/ SortPodModels

SpecSort == InitSort /\ [][NextSort]_vars

----------------------------------------------------------------------------
(* Sort state and ordering: C6 - C10, under SpecSort *)

\* The collection is the result of SortPodModels under the sort state in force.
Sorted == lastOp.op = "SortPodModels"

\* The input the view at position i of the collection was built from.
InputOf(i) ==
    CHOOSE n \in 1..Len(podInputs) :
        /\ podInputs[n].pod.Namespace = podModels[i].Namespace
        /\ podInputs[n].pod.Name = podModels[i].Name

\* The view at position i was built while the pod's metrics were missing.
NoData(i) == MetricsMissing(podInputs[InputOf(i)].podMetrics)

\* C6: the sort state starts as (NAMESPACE, ascending); the direction is
\* always +1 or -1; SetSortField with the field in force flips the direction
\* and keeps the field; SetSortField with another field makes it the field
\* in force and resets the direction to ascending.
SortStateRules ==
    /\ currentSortField = "NAMESPACE" /\ currentSortDirection = SortAscending
    /\ [](currentSortDirection \in {SortAscending, SortDescending})
    /\ [][lastOp'.op = "SetSortField" =>
            IF lastOp'.field = currentSortField
            THEN /\ currentSortField' = currentSortField
                 /\ currentSortDirection' = -currentSortDirection
            ELSE /\ currentSortField' = lastOp'.field
                 /\ currentSortDirection' = SortAscending]_vars

\* C6 witness: the field has been changed (direction reset) and then chosen
\* again (direction flipped to descending).
DirectionFlippedAfterReset ==
    /\ lastOp.op = "SetSortField"
    /\ currentSortField = "CPU"
    /\ currentSortDirection = SortDescending

\* C7: under the field and direction in force, of any two distinct pods of
\* the collection exactly one precedes the other.
StrictTotalOrder ==
    \A i, j \in 1..Len(podModels) :
        i # j =>
            (Less(podModels[i], podModels[j], currentSortField, currentSortDirection)
             # Less(podModels[j], podModels[i], currentSortField, currentSortDirection))

\* C8: after SortPodModels by CPU or by MEMORY, ascending leaves no pod with
\* data before a pod built without metrics, and descending leaves no pod
\* built without metrics before a pod with data.
MissingMetricsOrdered ==
    (Sorted /\ currentSortField \in {"CPU", "MEMORY"}) =>
        \A i, j \in 1..Len(podModels) :
            i < j =>
                /\ currentSortDirection = SortAscending => ~(~NoData(i) /\ NoData(j))
                /\ currentSortDirection = SortDescending => ~(NoData(i) /\ ~NoData(j))

\* What a view says about the pod's usage.
UsageOf(view) == <<view.PodUsageCpuQty, view.PodUsageMemQty>>

\* A sample that reports zero usage for one container.
ZeroUsageSample == [IsNil |-> FALSE, Containers |-> <<[cpu |-> 0, mem |-> 0]>>]

\* C9: the usage of a view built while the pod's metrics were missing
\* differs from the usage of the view the same pod gets from a sample that
\* reports zero.
UnavailableUsageDistinct ==
    \A i \in 1..Len(podModels) :
        NoData(i) =>
            UsageOf(podModels[i])
              # UsageOf(NewPodModel(podInputs[InputOf(i)].pod, ZeroUsageSample))

NumericFields == {"CPU", "MEMORY", "RESTARTS", "READY"}

\* The view has a value for the numeric field.
HasValue(view, field) ==
    CASE field = "CPU" -> ~view.PodUsageCpuQty.IsNil
      [] field = "MEMORY" -> ~view.PodUsageMemQty.IsNil
      [] field = "RESTARTS" -> TRUE
      [] field = "READY" -> view.TotalContainers > 0

\* The value of the numeric field is smaller in view a than in view b.
SmallerValue(a, b, field) ==
    CASE field = "CPU" -> MilliValue(a.PodUsageCpuQty) < MilliValue(b.PodUsageCpuQty)
      [] field = "MEMORY" -> Value(a.PodUsageMemQty) < Value(b.PodUsageMemQty)
      [] field = "RESTARTS" -> a.Restarts < b.Restarts
      [] field = "READY" ->
            a.ReadyContainers * b.TotalContainers < b.ReadyContainers * a.TotalContainers

\* C10: after SortPodModels ascending by a numeric field, no pod comes
\* before a pod whose value for the field is present and smaller.
NumericAscending ==
    (Sorted /\ currentSortDirection = SortAscending
            /\ currentSortField \in NumericFields) =>
        \A i, j \in 1..Len(podModels) :
            (i < j /\ HasValue(podModels[i], currentSortField)
                   /\ HasValue(podModels[j], currentSortField))
            => ~SmallerValue(podModels[j], podModels[i], currentSortField)

Reverse(s) == [i \in 1..Len(s) |-> s[Len(s) + 1 - i]]

\* C12: the order a sort leaves is the exact reverse of the order the other
\* direction gives for the same field and the same pods.
DescendingIsReverse ==
    Sorted =>
        podModels = Reverse(sortSlice(podModels, currentSortField,
                                      -currentSortDirection))

----------------------------------------------------------------------------
(* application.Application: Refresh and the consumer goroutine of Run      *)

MaxRefreshCalls == 5   \* Refresh calls made in one behaviour

\* make(chan struct{}, 1) (app_ctrl.go:44)
RefreshQCap == 1

\* No refresh cycle is running and no peak is on record.
PeakAtRest ==
    /\ PeakPodCPU = EmptyMap
    /\ PeakPodMemory = EmptyMap
    /\ podCache = {}
    /\ fatal = FALSE
    /\ pc = [t \in Tasks |-> "idle"]
    /\ pods = [t \in Tasks |-> <<>>]
    /\ idx = [t \in Tasks |-> 0]
    /\ podMetrics = [t \in Tasks |-> NewPodMetrics]
    /\ totalCpu = [t \in Tasks |-> 0]
    /\ totalMem = [t \in Tasks |-> 0]
    /\ maxSeenCpu = EmptyMap
    /\ maxSeenMem = EmptyMap
    /\ skipped = [t \in Tasks |-> FALSE]

\* The sort engine in its initial state, with no collection.
SortAtRest ==
    /\ currentSortField = "NAMESPACE"
    /\ currentSortDirection = SortAscending
    /\ podModels = <<>>
    /\ podInputs = <<>>
    /\ nanBits = 65528
    /\ lastOp = [op |-> "none", field |-> ""]

\* A caller enters Refresh and reaches its select statement.
RefreshCall(c) ==
    /\ refreshPc[c] = "idle"
    /\ refreshCalls < MaxRefreshCalls
    /\ refreshPc' = [refreshPc EXCEPT ![c] = "select"]
    /\ timedOut' = [timedOut EXCEPT ![c] = FALSE]
    /\ refreshCalls' = refreshCalls + 1
    /\ UNCHANGED <<refreshQ, consumer, draws, sinceDraw, lastRefresh>>
    /\ UNCHANGED notRefreshVars

\* A send that does not look at the room left in the channel.
RefreshAlwaysSends(c) ==
    /\ refreshPc[c] = "select"
    /\ refreshQ' = refreshQ + 1
    /\ lastRefresh' = "sent"
    /\ refreshPc' = [refreshPc EXCEPT ![c] = "idle"]
    /\ sinceDraw' = sinceDraw + 1
    /\ UNCHANGED <<timedOut, consumer, refreshCalls, draws>>
    /\ UNCHANGED notRefreshVars

\* A select whose send case is never taken.
RefreshNeverSends(c) ==
    /\ refreshPc[c] = "select"
    /\ refreshQ' = refreshQ
    /\ lastRefresh' = "dropped"
    /\ refreshPc' = [refreshPc EXCEPT ![c] = "idle"]
    /\ sinceDraw' = sinceDraw + 1
    /\ UNCHANGED <<timedOut, consumer, refreshCalls, draws>>
    /\ UNCHANGED notRefreshVars

\* Refresh (app_ctrl.go:67-77): the select sends if the channel has room and
\* takes the default case otherwise; either way the call returns.
Refresh(c) ==
    /\ refreshPc[c] = "select"
    /\ IF refreshQ < RefreshQCap
       THEN refreshQ' = refreshQ + 1 /\ lastRefresh' = "sent"
       ELSE refreshQ' = refreshQ /\ lastRefresh' = "dropped"
    /\ refreshPc' = [refreshPc EXCEPT ![c] = "idle"]
    /\ sinceDraw' = sinceDraw + 1
    /\ UNCHANGED <<timedOut, consumer, refreshCalls, draws>>
    /\ UNCHANGED notRefreshVars

\* Refresh (app_ctrl.go:357-365): the select sends if the channel has room,
\* or gives up once the timer of time.After(100ms) has fired; with both
\* ready Go takes either.  With neither ready the caller waits.
RefreshWithTimeout(c) ==
    /\ refreshPc[c] = "select"
    /\ \/ /\ refreshQ < RefreshQCap
          /\ refreshQ' = refreshQ + 1
          /\ lastRefresh' = "sent"
       \/ /\ timedOut[c]
          /\ refreshQ' = refreshQ
          /\ lastRefresh' = "dropped"
    /\ refreshPc' = [refreshPc EXCEPT ![c] = "idle"]
    /\ sinceDraw' = sinceDraw + 1
    /\ UNCHANGED <<timedOut, consumer, refreshCalls, draws>>
    /\ UNCHANGED notRefreshVars

\* 100 ms have passed since the caller reached the select of lines 359-364.
TimerFires(c) ==
    /\ refreshPc[c] = "select"
    /\ ~timedOut[c]
    /\ timedOut' = [timedOut EXCEPT ![c] = TRUE]
    /\ UNCHANGED <<refreshQ, refreshPc, consumer, refreshCalls, draws,
                   sinceDraw, lastRefresh>>
    /\ UNCHANGED notRefreshVars

\* Run (app_ctrl.go:265-269): the range loop receives a request and calls Draw.
ConsumerReceive ==
    /\ consumer = "range"
    /\ refreshQ > 0
    /\ refreshQ' = refreshQ - 1
    /\ consumer' = "Draw"
    /\ draws' = draws + 1
    /\ sinceDraw' = 0
    /\ UNCHANGED <<refreshPc, timedOut, refreshCalls, lastRefresh>>
    /\ UNCHANGED notRefreshVars

\* tviewApp.Draw returns: it queues the redraw for the UI thread and waits
\* until the event loop has run it, which the loop does between handlers.
DrawReturns ==
    /\ consumer = "Draw"
    /\ refreshPc["ui"] = "idle"
    /\ consumer' = "range"
    /\ UNCHANGED <<refreshQ, refreshPc, timedOut, refreshCalls, draws,
                   sinceDraw, lastRefresh>>
    /\ UNCHANGED notRefreshVars

InitRefresh ==
    /\ RefreshAtRest /\ PeakAtRest /\ SortAtRest /\ SchedAtRest
    /\ KeyAtRest /\ StartAtRest /\ StatusAtRest /\ PanelAtRest

NextRefresh ==
    \/ \E c \in RefreshCallers : RefreshCall(c)
    \/ \E c \in RefreshCallers : Refresh(c)
    \/ ConsumerReceive
    \/ DrawReturns

SpecRefresh == InitRefresh /\ [][NextRefresh]_vars

\* The goroutines are scheduled fairly: a caller inside Refresh gets to run
\* its select, the consumer gets to receive, and the UI thread gets to run
\* the queued redraw.
SpecRefreshFair ==
    /\ SpecRefresh
    /\ \A c \in RefreshCallers : WF_vars(Refresh(c))
    /\ WF_vars(ConsumerReceive)
    /\ WF_vars(DrawReturns)

NextRefreshTimeout ==
    \/ \E c \in RefreshCallers : RefreshCall(c)
    \/ \E c \in RefreshCallers : RefreshWithTimeout(c)
    \/ \E c \in RefreshCallers : TimerFires(c)
    \/ ConsumerReceive
    \/ DrawReturns

SpecRefreshTimeout == InitRefresh /\ [][NextRefreshTimeout]_vars

----------------------------------------------------------------------------
(* The redraw channel: C13 - C15 *)

\* C13: a caller inside Refresh never waits: in every state its select can
\* run and return, whatever the channel holds and whatever the renderer is
\* doing.  Stated for the definition of Refresh at app_ctrl.go:357-365,
\* under SpecRefreshTimeout.
RefreshNeverWaits ==
    \A c \in RefreshCallers :
        refreshPc[c] = "select" => ENABLED RefreshWithTimeout(c)

\* The same property for the definition of Refresh at app_ctrl.go:67-77,
\* under SpecRefresh, where it holds.
RefreshSelectAlwaysReady ==
    \A c \in RefreshCallers :
        refreshPc[c] = "select" => ENABLED Refresh(c)

\* C14: the channel never holds more than one request; the Refresh calls
\* returned since the last Draw began, however many, stand as exactly one
\* pending request; Draw calls never outnumber Refresh calls; and a call
\* that finds a request pending changes nothing but its own return.
OnePendingRedraw ==
    /\ [](/\ refreshQ <= 1
          /\ draws <= refreshCalls
          /\ (refreshQ = 1 <=> sinceDraw > 0))
    /\ [][\A c \in RefreshCallers :
            (refreshPc[c] = "select" /\ refreshPc'[c] = "idle" /\ refreshQ = 1)
            => /\ refreshQ' = refreshQ
               /\ draws' = draws
               /\ consumer' = consumer
               /\ lastRefresh' = "dropped"]_vars

\* C14 witness: two or more Refresh calls have returned while the renderer
\* is inside one Draw, the last of them dropped, and one request is pending.
CallsCoalescedDuringDraw ==
    /\ consumer = "Draw"
    /\ sinceDraw >= 2
    /\ lastRefresh = "dropped"
    /\ refreshQ = 1

\* C15: whenever a Refresh call has returned since the last Draw began, a
\* Draw eventually begins.
DrawFollowsRefresh == (sinceDraw > 0) ~> (sinceDraw = 0)

\* C15 witness: the last Refresh call was dropped, and a Draw has begun
\* after it returned.
DrawAfterDroppedRefresh ==
    /\ lastRefresh = "dropped"
    /\ sinceDraw = 0
    /\ draws >= 2

----------------------------------------------------------------------------
(* k8s.Controller: the pod scheduler (installPodsHandler, refreshPods)     *)

MaxTicks == 2      \* ticks the ticker delivers in one behaviour
MaxListed == 2     \* pods a listing returns

\* A context whose cancellation GetPodList does not see.
ctxErrNeverSet == "nil"

\* ctx.Err() of the context Start was given (cmd/ktop.go:84, WithCancel).
ctxErr == IF ctxDone THEN "Canceled" ELSE "nil"

\* A loop that returns when refreshPods reports an error.
LoopReturnsOnError(err) == IF err THEN "stopped" ELSE "select"

\* Where the goroutine goes when refreshPods has returned: the result of
\* the initial refresh is not looked at, and an error of a tick's refresh
\* only continues the loop (pods_controller.go:112-122).
LoopAfterRefresh(err) == "select"

\* refreshPods returns: the cycle is over.
EndRefreshPods(err, delivered) ==
    /\ cyclePhase' = "none"
    /\ cycleListed' = 0
    /\ cycleBuilt' = 0
    /\ cancelledMidBuild' = FALSE
    /\ lastCycle' = [err |-> err, delivered |-> delivered,
                     cancelledMidBuild |-> cancelledMidBuild]
    /\ callbacks' = IF delivered THEN callbacks + 1 ELSE callbacks
    /\ schedPc' = LoopAfterRefresh(err)

\* installPodsHandler without the refresh before the loop.
installPodsHandlerNoInitial ==
    /\ schedPc = "idle"
    /\ IF ~podRefreshFunc
       THEN schedPc' = "notInstalled"
       ELSE schedPc' = "select"
    /\ UNCHANGED <<ctxDone, podRefreshFunc, tickerC, ticksSent, ticksReceived,
                   cyclesStarted, callbacks, cyclePhase, cycleListed, cycleBuilt,
                   cancelledMidBuild, lastCycle>>
    /\ UNCHANGED notSchedVars

\* installPodsHandler (pods_controller.go:107-112): nothing without a
\* callback; otherwise the goroutine starts and calls refreshPods at once.
installPodsHandler ==
    /\ schedPc = "idle"
    /\ IF ~podRefreshFunc
       THEN /\ schedPc' = "notInstalled"
            /\ UNCHANGED <<cyclePhase, cyclesStarted>>
       ELSE /\ schedPc' = "initial"
            /\ cyclePhase' = "GetPodList"
            /\ cyclesStarted' = cyclesStarted + 1
    /\ UNCHANGED <<ctxDone, podRefreshFunc, tickerC, ticksSent, ticksReceived,
                   callbacks, cycleListed, cycleBuilt, cancelledMidBuild,
                   lastCycle>>
    /\ UNCHANGED notSchedVars

\* The ticker created at line 113 delivers a tick; ticker.C buffers one.
TickerTick ==
    /\ schedPc \in {"select", "tick"}
    /\ tickerC = 0
    /\ ticksSent < MaxTicks
    /\ tickerC' = 1
    /\ ticksSent' = ticksSent + 1
    /\ UNCHANGED <<ctxDone, podRefreshFunc, schedPc, ticksReceived,
                   cyclesStarted, callbacks, cyclePhase, cycleListed, cycleBuilt,
                   cancelledMidBuild, lastCycle>>
    /\ UNCHANGED notSchedVars

\* case <-ticker.C (lines 119-120): the loop receives the tick and calls
\* refreshPods.
SelectTicker ==
    /\ schedPc = "select"
    /\ tickerC = 1
    /\ tickerC' = 0
    /\ ticksReceived' = ticksReceived + 1
    /\ schedPc' = "tick"
    /\ cyclePhase' = "GetPodList"
    /\ cyclesStarted' = cyclesStarted + 1
    /\ UNCHANGED <<ctxDone, podRefreshFunc, ticksSent, callbacks, cycleListed,
                   cycleBuilt, cancelledMidBuild, lastCycle>>
    /\ UNCHANGED notSchedVars

\* A case <-ctx.Done() that goes round the loop again.
SelectDoneContinues ==
    /\ schedPc = "select"
    /\ ctxDone
    /\ schedPc' = "select"
    /\ UNCHANGED <<ctxDone, podRefreshFunc, tickerC, ticksSent, ticksReceived,
                   cyclesStarted, callbacks, cyclePhase, cycleListed, cycleBuilt,
                   cancelledMidBuild, lastCycle>>
    /\ UNCHANGED notSchedVars

\* case <-ctx.Done() (lines 117-118): the goroutine returns.
SelectDone ==
    /\ schedPc = "select"
    /\ ctxDone
    /\ schedPc' = "stopped"
    /\ UNCHANGED <<ctxDone, podRefreshFunc, tickerC, ticksSent, ticksReceived,
                   cyclesStarted, callbacks, cyclePhase, cycleListed, cycleBuilt,
                   cancelledMidBuild, lastCycle>>
    /\ UNCHANGED notSchedVars

\* GetPodList (lines 14-23) as the first step of GetPodModels: the context
\* error if there is one, else the lister's error or its listing.  On an
\* error GetPodModels returns no models, and refreshPods (lines 130-138)
\* delivers only if the error is a passed deadline and there are models.
CycleGetPodList ==
    /\ cyclePhase = "GetPodList"
    /\ \/ /\ ctxErr # "nil"
          /\ EndRefreshPods(TRUE, ctxErr = "DeadlineExceeded" /\ 0 > 0)
       \/ /\ ctxErr = "nil"
          /\ EndRefreshPods(TRUE, ctxErr = "DeadlineExceeded" /\ 0 > 0)
       \/ /\ ctxErr = "nil"
          /\ \E n \in 0..MaxListed :
                /\ cycleListed' = n
                /\ cycleBuilt' = 0
                /\ cyclePhase' = "build"
          /\ UNCHANGED <<schedPc, callbacks, cancelledMidBuild, lastCycle>>
    /\ UNCHANGED <<ctxDone, podRefreshFunc, tickerC, ticksSent, ticksReceived,
                   cyclesStarted>>
    /\ UNCHANGED notSchedVars

\* One turn of the loop of GetPodModels (lines 43-103): the view of the next
\* pod is built and appended; errors of the fetches inside are replaced by
\* empty values, and the context is not looked at.
CycleBuildPod ==
    /\ cyclePhase = "build"
    /\ cycleBuilt < cycleListed
    /\ cycleBuilt' = cycleBuilt + 1
    /\ UNCHANGED <<ctxDone, podRefreshFunc, schedPc, tickerC, ticksSent,
                   ticksReceived, cyclesStarted, callbacks, cyclePhase,
                   cycleListed, cancelledMidBuild, lastCycle>>
    /\ UNCHANGED notSchedVars

\* GetPodModels returns its models and a nil error (line 104); refreshPods
\* invokes the callback and returns nil (lines 140-141).
CycleDeliver ==
    /\ cyclePhase = "build"
    /\ cycleBuilt = cycleListed
    /\ EndRefreshPods(FALSE, TRUE)
    /\ UNCHANGED <<ctxDone, podRefreshFunc, tickerC, ticksSent, ticksReceived,
                   cyclesStarted>>
    /\ UNCHANGED notSchedVars

\* cancel() of the context handed to Start (cmd/ktop.go:84-85).
Cancel ==
    /\ ~ctxDone
    /\ ctxDone' = TRUE
    /\ cancelledMidBuild' = (cyclePhase = "build" /\ cycleBuilt < cycleListed)
    /\ UNCHANGED <<podRefreshFunc, schedPc, tickerC, ticksSent, ticksReceived,
                   cyclesStarted, callbacks, cyclePhase, cycleListed, cycleBuilt,
                   lastCycle>>
    /\ UNCHANGED notSchedVars

InitSched ==
    /\ ctxDone = FALSE
    /\ podRefreshFunc \in BOOLEAN
    /\ schedPc = "idle"
    /\ tickerC = 0
    /\ ticksSent = 0
    /\ ticksReceived = 0
    /\ cyclesStarted = 0
    /\ callbacks = 0
    /\ cyclePhase = "none"
    /\ cycleListed = 0
    /\ cycleBuilt = 0
    /\ cancelledMidBuild = FALSE
    /\ lastCycle = [err |-> FALSE, delivered |-> FALSE, cancelledMidBuild |-> FALSE]
    /\ RefreshAtRest /\ PeakAtRest /\ SortAtRest
    /\ KeyAtRest /\ StartAtRest /\ StatusAtRest /\ PanelAtRest

NextSched ==
    \/ installPodsHandler
    \/ TickerTick
    \/ SelectTicker
    \/ SelectDone
    \/ CycleGetPodList
    \/ CycleBuildPod
    \/ CycleDeliver
    \/ Cancel

SpecSched == InitSched /\ [][NextSched]_vars

\* The goroutine is scheduled fairly, and a select with a ready case that
\* is reached again and again takes that case in the end (Go chooses
\* uniformly among the ready cases).
SpecSchedFair ==
    /\ SpecSched
    /\ WF_vars(CycleGetPodList)
    /\ WF_vars(CycleBuildPod)
    /\ WF_vars(CycleDeliver)
    /\ SF_vars(SelectDone)

----------------------------------------------------------------------------
(* Properties of the pod scheduler                                         *)

\* The goroutine of installPodsHandler is alive.
Running == schedPc \in {"initial", "select", "tick"}

\* C16: a started scheduler with a callback runs one cycle at once, before
\* the ticker exists and so before any tick, and from then on has started
\* exactly one cycle for each tick it received; without a callback nothing
\* is started.
InitialCycleThenOnePerTick ==
    /\ schedPc \in {"idle", "notInstalled"} =>
          cyclesStarted = 0 /\ ticksSent = 0 /\ ticksReceived = 0
    /\ schedPc = "initial" =>
          cyclesStarted = 1 /\ ticksSent = 0 /\ ticksReceived = 0
    /\ schedPc \in {"select", "tick", "stopped"} =>
          cyclesStarted = 1 + ticksReceived
    /\ (cyclePhase # "none") = (schedPc \in {"initial", "tick"})

\* The cycle of the second tick is running, the third cycle in all, and no
\* cancellation was requested.
ThirdCycleOnSecondTick ==
    /\ ~ctxDone
    /\ schedPc = "tick"
    /\ ticksReceived = 2
    /\ cyclesStarted = 3

\* C17: when a cycle has returned an error and no cancellation was
\* requested, the loop is at its select, and with a tick in ticker.C it can
\* receive it and start the next cycle.
FailedCycleKeepsLoop ==
    (lastCycle.err /\ ~ctxDone /\ cyclePhase = "none" /\ schedPc # "idle") =>
        /\ schedPc = "select"
        /\ tickerC = 1 => ENABLED SelectTicker

\* A cycle started by a tick is running after a cycle that failed, with no
\* cancellation requested.
CycleAfterFailedCycle ==
    /\ lastCycle.err
    /\ ~ctxDone
    /\ schedPc = "tick"
    /\ cyclePhase = "GetPodList"

\* C18: the goroutine stops only when the context is cancelled; once
\* stopped it stays stopped and starts no cycle; and a running loop whose
\* context is cancelled stops in the end.
StopsOnlyOnCancel ==
    /\ [][ /\ (Running /\ ~Running') => (ctxDone /\ schedPc' = "stopped")
           /\ schedPc = "stopped" =>
                 /\ schedPc' = "stopped"
                 /\ cyclesStarted' = cyclesStarted
                 /\ cyclePhase' = "none" ]_vars
    /\ (ctxDone /\ Running) ~> (schedPc = "stopped")

\* The loop has stopped after a tick's cycle, with a later tick left in
\* ticker.C that it will never receive.
StoppedWithTickPending ==
    /\ schedPc = "stopped"
    /\ ticksReceived >= 1
    /\ tickerC = 1

\* Task t is inside refreshPods: from the listing to the return of the
\* callback.
InRefreshPods(t) == pc[t] # "idle"

\* C19: at most one execution of refreshPods is in progress.
NoOverlappingCycles ==
    Cardinality({t \in Tasks : InRefreshPods(t)}) <= 1

\* C20: a cycle whose context was cancelled while its build was incomplete
\* does not invoke the callback.
MidBuildCancelDiscards ==
    lastCycle.cancelledMidBuild => ~lastCycle.delivered

\* C35: a cycle that stands at its listing with the context cancelled, as
\* every cycle started after the cancellation does, builds no view (the
\* build loop is where peak records are updated), invokes no callback and
\* ends with an error.
CancelledCycleDeliversNothing ==
    [][(ctxDone /\ cyclePhase = "GetPodList") =>
          /\ callbacks' = callbacks
          /\ cycleBuilt' = cycleBuilt
          /\ cyclePhase' \in {"GetPodList", "none"}
          /\ cyclePhase' = "none" => (lastCycle'.err /\ ~lastCycle'.delivered)]_vars

\* After the initial cycle delivered and the context was cancelled, the
\* loop took the pending tick, and that tick's cycle has ended with an error
\* and without a callback.
CancelledCycleEnded ==
    /\ ctxDone
    /\ schedPc = "select"
    /\ cyclePhase = "none"
    /\ ticksReceived = 1
    /\ callbacks = 1
    /\ lastCycle.err /\ ~lastCycle.delivered

----------------------------------------------------------------------------
(* The sort-key handler of Application.setup and Controller.TriggerPodRefresh *)

MaxKeys == 2       \* sort-key events in one behaviour

\* The letters of the switch at app_ctrl.go:167-189 and their fields.
SortFieldOfRune(r) ==
    CASE r = "n" -> "NAMESPACE"
      [] r = "p" -> "POD"
      [] r = "s" -> "STATUS"
      [] r = "a" -> "AGE"
      [] r = "o" -> "NODE"
      [] r = "r" -> "READY"
      [] r = "t" -> "RESTARTS"
      [] r = "c" -> "CPU"
      [] r = "m" -> "MEMORY"
      [] r = "i" -> "IP"
      [] r = "v" -> "VOLS"
      [] OTHER -> ""

\* The letters the user presses in this model.
KeyRunes == {"p", "c"}

\* The intervals --pods-refresh is given in this model (cmd/ktop.go:101).
PodsRefreshIntervals == {1, 3}

\* The context of the scheduler's cycles is the one runKtop made with
\* context.WithCancel (cmd/ktop.go:84) and handed down to Start; the context
\* of a forced cycle is made with context.WithTimeout (client_controller.go:113).
CycleContext(task) ==
    IF task = "ticker"
    THEN [cancel |-> TRUE, deadline |-> FALSE]
    ELSE [cancel |-> TRUE, deadline |-> TRUE]

\* The task is inside refreshPods.
CycleInProgress(task) ==
    IF task = "ticker"
    THEN cyclePhase # "none"
    ELSE keyPc \in {"GetPodList", "build"}

\* ctx.Err() of the forced cycle's context.
forcedCtxErr == IF forcedExpired THEN "DeadlineExceeded" ELSE "nil"

\* The handler's first step (app_ctrl.go:199): SetSortField(field), as in
\* part_002:103-112.
KeySetSortField(r) ==
    /\ keyPc = "idle"
    /\ keyEvents < MaxKeys
    /\ SortFieldOfRune(r) # ""
    /\ IF currentSortField = SortFieldOfRune(r)
       THEN /\ currentSortDirection' = currentSortDirection * (-1)
            /\ currentSortField' = currentSortField
       ELSE /\ currentSortField' = SortFieldOfRune(r)
            /\ currentSortDirection' = SortAscending
    /\ lastOp' = [op |-> "SetSortField", field |-> SortFieldOfRune(r)]
    /\ keyField' = SortFieldOfRune(r)
    /\ keyLog' = <<"SetSortField">>
    /\ keyEvents' = keyEvents + 1
    /\ keyPc' = "TriggerPodRefresh"
    /\ UNCHANGED <<podModels, podInputs, nanBits>>
    /\ UNCHANGED <<forcedListed, forcedBuilt, forcedExpired, builtAtExpiry,
                   forcedCalls, shown, lastForced, PodsRefreshInterval>>
    /\ UNCHANGED <<refreshVars, notKeyVars>>

\* A TriggerPodRefresh that starts the cycle and returns without waiting
\* for it.
TriggerPodRefreshNoWait ==
    /\ keyPc = "TriggerPodRefresh"
    /\ keyLog' = Append(keyLog, "TriggerPodRefresh")
    /\ keyPc' = "Refresh"
    /\ UNCHANGED <<keyField, keyEvents, forcedListed, forcedBuilt,
                   forcedExpired, builtAtExpiry, forcedCalls, shown, lastForced,
                   PodsRefreshInterval>>
    /\ UNCHANGED <<sortVars, refreshVars, notKeyVars>>

\* A TriggerPodRefresh that also empties the scheduler's ticker channel.
TriggerPodRefreshResetsTicker ==
    /\ keyPc = "TriggerPodRefresh"
    /\ keyLog' = Append(keyLog, "TriggerPodRefresh")
    /\ keyPc' = "GetPodList"
    /\ forcedListed' = 0
    /\ forcedBuilt' = 0
    /\ forcedExpired' = FALSE
    /\ builtAtExpiry' = -1
    /\ forcedCalls' = 0
    /\ tickerC' = 0
    /\ UNCHANGED <<keyField, keyEvents, shown, lastForced, PodsRefreshInterval>>
    /\ UNCHANGED <<ctxDone, podRefreshFunc, schedPc, ticksSent, ticksReceived,
                   cyclesStarted, callbacks, cyclePhase, cycleListed, cycleBuilt,
                   cancelledMidBuild, lastCycle>>
    /\ UNCHANGED <<sortVars, refreshVars, peakVars, startVars, statusVars,
                   panelVars>>

\* TriggerPodRefresh (client_controller.go:107-117), called at
\* app_ctrl.go:205: nothing without a callback; otherwise a context with a
\* deadline of 5 s and a call of refreshPods on the calling thread.
TriggerPodRefresh ==
    /\ keyPc = "TriggerPodRefresh"
    /\ keyLog' = Append(keyLog, "TriggerPodRefresh")
    /\ IF ~podRefreshFunc
       THEN /\ keyPc' = "Refresh"
            /\ UNCHANGED <<forcedListed, forcedBuilt, forcedExpired,
                           builtAtExpiry, forcedCalls>>
       ELSE /\ keyPc' = "GetPodList"
            /\ forcedListed' = 0
            /\ forcedBuilt' = 0
            /\ forcedExpired' = FALSE
            /\ builtAtExpiry' = -1
            /\ forcedCalls' = 0
    /\ UNCHANGED <<keyField, keyEvents, shown, lastForced, PodsRefreshInterval>>
    /\ UNCHANGED <<sortVars, refreshVars, notKeyVars>>

\* The 5 s of the forced cycle's context pass while the cycle is running.
ForcedDeadline ==
    /\ keyPc \in {"GetPodList", "build"}
    /\ ~forcedExpired
    /\ forcedExpired' = TRUE
    /\ builtAtExpiry' = forcedBuilt
    /\ UNCHANGED <<keyPc, keyField, keyLog, keyEvents, forcedListed,
                   forcedBuilt, forcedCalls, shown, lastForced,
                   PodsRefreshInterval>>
    /\ UNCHANGED <<sortVars, refreshVars, notKeyVars>>

\* A forced refreshPods that, when it has an error, leaves the handler.
EndForcedAbortsOnError(err, calls, size) ==
    /\ lastForced' = [err |-> err, calls |-> calls, size |-> size,
                      listed |-> forcedListed, builtAtExpiry |-> builtAtExpiry,
                      ticks |-> ticksReceived]
    /\ forcedCalls' = calls
    /\ shown' = IF calls > 0 THEN size ELSE shown
    /\ keyLog' = Append(keyLog, "TriggerPodRefresh returns")
    /\ keyPc' = IF err THEN "idle" ELSE "Refresh"
    /\ forcedListed' = 0
    /\ forcedBuilt' = 0
    /\ forcedExpired' = FALSE
    /\ builtAtExpiry' = -1

\* refreshPods returns to TriggerPodRefresh, which returns to the handler
\* (client_controller.go:117, app_ctrl.go:205-214): whatever the outcome the
\* handler goes on to DrawFooter and Refresh.
EndForced(err, calls, size) ==
    /\ lastForced' = [err |-> err, calls |-> calls, size |-> size,
                      listed |-> forcedListed, builtAtExpiry |-> builtAtExpiry,
                      ticks |-> ticksReceived]
    /\ forcedCalls' = calls
    /\ shown' = IF calls > 0 THEN size ELSE shown
    /\ keyLog' = Append(keyLog, "TriggerPodRefresh returns")
    /\ keyPc' = "Refresh"
    /\ forcedListed' = 0
    /\ forcedBuilt' = 0
    /\ forcedExpired' = FALSE
    /\ builtAtExpiry' = -1

\* refreshPods on an error of GetPodModels (pods_controller.go:130-138):
\* the callback gets the models only if the deadline has passed and there
\* are any.
CallsOnError(models) ==
    IF forcedCtxErr = "DeadlineExceeded" /\ models > 0 THEN 1 ELSE 0

\* GetPodList of the forced cycle (pods_controller.go:14-23, 36-40): the
\* context's error if it has one, else the lister's error or its listing.
\* With an error GetPodModels returns no models.
ForcedGetPodList ==
    /\ keyPc = "GetPodList"
    /\ \/ /\ forcedCtxErr # "nil"
          /\ EndForced(TRUE, CallsOnError(0), 0)
       \/ /\ forcedCtxErr = "nil"
          /\ EndForced(TRUE, CallsOnError(0), 0)
       \/ /\ forcedCtxErr = "nil"
          /\ \E n \in 0..MaxListed : forcedListed' = n
          /\ keyPc' = "build"
          /\ UNCHANGED <<keyLog, forcedBuilt, forcedExpired, builtAtExpiry,
                         forcedCalls, shown, lastForced>>
    /\ UNCHANGED <<keyField, keyEvents, PodsRefreshInterval>>
    /\ UNCHANGED <<sortVars, refreshVars, notKeyVars>>

\* One turn of the loop of GetPodModels (pods_controller.go:43-103) in the
\* forced cycle; the context is not looked at, and the fetches that fail
\* because its deadline has passed are replaced by empty values.
ForcedBuildPod ==
    /\ keyPc = "build"
    /\ forcedBuilt < forcedListed
    /\ forcedBuilt' = forcedBuilt + 1
    /\ UNCHANGED <<keyPc, keyField, keyLog, keyEvents, forcedListed,
                   forcedExpired, builtAtExpiry, forcedCalls, shown, lastForced,
                   PodsRefreshInterval>>
    /\ UNCHANGED <<sortVars, refreshVars, notKeyVars>>

\* GetPodModels returns every view with a nil error (line 104) and
\* refreshPods hands them to the callback (lines 140-141).
ForcedDeliver ==
    /\ keyPc = "build"
    /\ forcedBuilt = forcedListed
    /\ EndForced(FALSE, 1, forcedBuilt)
    /\ UNCHANGED <<keyField, keyEvents, PodsRefreshInterval>>
    /\ UNCHANGED <<sortVars, refreshVars, notKeyVars>>

\* The handler draws the footer and calls app.Refresh (app_ctrl.go:210-217,
\* 67-77): a request is sent if the channel has room.
KeyRefresh ==
    /\ keyPc = "Refresh"
    /\ IF refreshQ < RefreshQCap
       THEN refreshQ' = refreshQ + 1 /\ lastRefresh' = "sent"
       ELSE refreshQ' = refreshQ /\ lastRefresh' = "dropped"
    /\ sinceDraw' = sinceDraw + 1
    /\ refreshCalls' = refreshCalls + 1
    /\ keyLog' = Append(keyLog, "Refresh")
    /\ keyPc' = "return"
    /\ UNCHANGED <<refreshPc, timedOut, consumer, draws>>
    /\ UNCHANGED <<keyField, keyEvents, forcedListed, forcedBuilt,
                   forcedExpired, builtAtExpiry, forcedCalls, shown, lastForced,
                   PodsRefreshInterval>>
    /\ UNCHANGED <<sortVars, notKeyVars>>

\* showSortInfo and return nil (app_ctrl.go:220-222): the event is consumed.
KeyReturn ==
    /\ keyPc = "return"
    /\ keyLog' = Append(keyLog, "return nil")
    /\ keyPc' = "idle"
    /\ UNCHANGED <<keyField, keyEvents, forcedListed, forcedBuilt,
                   forcedExpired, builtAtExpiry, forcedCalls, shown, lastForced,
                   PodsRefreshInterval>>
    /\ UNCHANGED <<sortVars, refreshVars, notKeyVars>>

\* The application is running: the callback is registered and Start is about
\* to install the pod scheduler.
InitKey ==
    /\ keyPc = "idle"
    /\ keyField = ""
    /\ keyLog = <<>>
    /\ keyEvents = 0
    /\ forcedListed = 0
    /\ forcedBuilt = 0
    /\ forcedExpired = FALSE
    /\ builtAtExpiry = -1
    /\ forcedCalls = 0
    /\ shown = -1
    /\ lastForced = [err |-> FALSE, calls |-> 0, size |-> 0, listed |-> 0,
                     builtAtExpiry |-> -1, ticks |-> 0]
    /\ PodsRefreshInterval \in PodsRefreshIntervals
    /\ PeakAtRest /\ SortAtRest /\ RefreshAtRest /\ SchedAtRest
    /\ StartAtRest /\ StatusAtRest /\ PanelAtRest

NextKey ==
    \/ \E r \in KeyRunes : KeySetSortField(r)
    \/ TriggerPodRefresh
    \/ ForcedDeadline
    \/ ForcedGetPodList
    \/ ForcedBuildPod
    \/ ForcedDeliver
    \/ KeyRefresh
    \/ KeyReturn
    \/ installPodsHandler
    \/ TickerTick
    \/ SelectTicker
    \/ CycleGetPodList
    \/ CycleBuildPod
    \/ CycleDeliver

SpecKey == InitKey /\ [][NextKey]_vars

----------------------------------------------------------------------------
(* Properties of the forced refresh and the sort-key handler               *)

\* C21: when the deadline of a cycle passed after k > 0 views were built,
\* the callback was invoked once, with those k views.
PartialDeliveryOnDeadline ==
    lastForced.builtAtExpiry > 0 =>
        /\ lastForced.calls = 1
        /\ lastForced.size = lastForced.builtAtExpiry

\* C22: every refresh cycle in progress runs under a context that has a
\* deadline.
EveryCycleHasDeadline ==
    \A task \in Tasks : CycleInProgress(task) => CycleContext(task).deadline

\* What the handler does for one sort-key event, in order.
HandlerSteps ==
    <<"SetSortField", "TriggerPodRefresh", "TriggerPodRefresh returns",
      "Refresh", "return nil">>

\* C23: the handler calls SetSortField, then TriggerPodRefresh, whose cycle
\* is over when it returns, then Refresh, then returns nil; each once per
\* event.
HandlerOrder ==
    /\ keyPc = "idle" => keyLog \in {<<>>, HandlerSteps}
    /\ keyPc = "TriggerPodRefresh" =>
          keyLog = SubSeq(HandlerSteps, 1, 1) /\ currentSortField = keyField
    /\ keyPc \in {"GetPodList", "build"} => keyLog = SubSeq(HandlerSteps, 1, 2)
    /\ keyPc = "Refresh" =>
          keyLog = SubSeq(HandlerSteps, 1, 3) /\ ~CycleInProgress("ui")
    /\ keyPc = "return" => keyLog = SubSeq(HandlerSteps, 1, 4)
    /\ refreshCalls = IF keyPc \in {"idle", "return"}
                      THEN keyEvents ELSE keyEvents - 1

\* The handler has returned from the second event, whose forced cycle
\* delivered a collection.
SecondKeyHandled ==
    /\ keyPc = "idle"
    /\ keyEvents = 2
    /\ keyLog = HandlerSteps
    /\ lastForced.calls = 1

\* A step of the handler or of its forced cycle.
HandlerStep ==
    \/ keyPc' # keyPc
    \/ forcedBuilt' # forcedBuilt
    \/ forcedExpired' # forcedExpired

\* C24: no step of a forced refresh changes the interval, the ticker, the
\* scheduler's position or the callback, and the scheduler goes on with one
\* cycle per tick received.
ForcedRefreshKeepsCadence ==
    /\ [][HandlerStep =>
             UNCHANGED <<PodsRefreshInterval, tickerC, ticksSent, ticksReceived,
                         podRefreshFunc, schedPc, cyclesStarted, cyclePhase>>]_vars
    /\ [](schedPc \in {"select", "tick"} => cyclesStarted = 1 + ticksReceived)

\* The scheduler has begun a tick's cycle after a forced refresh ended.
TickCycleAfterForcedRefresh ==
    /\ keyEvents >= 1
    /\ keyPc = "idle"
    /\ schedPc = "tick"
    /\ ticksReceived > lastForced.ticks

\* C25: a forced cycle whose GetPodList fails returns without invoking the
\* callback and leaves the delivered collection as it was; the handler then
\* calls Refresh and returns nil.
ListingFailureStillRedraws ==
    /\ [][(keyPc = "GetPodList" /\ keyPc' \notin {"GetPodList", "build"}) =>
             /\ lastForced'.err
             /\ lastForced'.calls = 0
             /\ shown' = shown
             /\ podModels' = podModels
             /\ keyPc' = "Refresh"]_vars
    /\ []((keyPc = "idle" /\ keyEvents > 0 /\ lastForced.err) =>
             (keyLog = HandlerSteps /\ refreshCalls = keyEvents))

\* The handler has returned after a forced cycle that failed and delivered
\* nothing.
HandledAfterFailedListing ==
    /\ keyPc = "idle"
    /\ keyEvents >= 1
    /\ lastForced.err
    /\ lastForced.calls = 0
    /\ keyLog = HandlerSteps

----------------------------------------------------------------------------
(* Controller.Start: cache syncs, handlers, and the process around them    *)

\* No panic has ended the process.
Alive == processPanic = "none"

\* A Start that installs its handlers without waiting for any cache.
StartCallInstallsAtOnce(ctxIsNil) ==
    /\ Alive
    /\ startPc = "notStarted"
    /\ startPc' = IF ctxIsNil THEN "returnedError" ELSE "summary"
    /\ UNCHANGED <<metricsAvailable, coreSync, nonCore, installed, processPanic>>
    /\ UNCHANGED notStartVars

\* Start is called (client_controller.go:120-141): a nil context is refused
\* with an error before anything is started; otherwise, with the metrics API
\* available, Start first waits for the metrics informers.
StartCall(ctxIsNil) ==
    /\ Alive
    /\ startPc = "notStarted"
    /\ startPc' = IF ctxIsNil THEN "returnedError"
                  ELSE IF metricsAvailable THEN "waitMetrics" ELSE "waitCore"
    /\ UNCHANGED <<metricsAvailable, coreSync, nonCore, installed, processPanic>>
    /\ UNCHANGED notStartVars

\* WaitForCacheSync of line 137 returns true.
StartMetricsSynced ==
    /\ Alive
    /\ startPc = "waitMetrics"
    /\ startPc' = "waitCore"
    /\ UNCHANGED <<metricsAvailable, coreSync, nonCore, installed, processPanic>>
    /\ UNCHANGED notStartVars

\* WaitForCacheSync of line 137 returns false, as it does when ctx.Done()
\* is closed first: panic (line 138).
StartMetricsSyncFails ==
    /\ Alive
    /\ startPc = "waitMetrics"
    /\ ctxDone
    /\ processPanic' = "metrics"
    /\ UNCHANGED <<startPc, metricsAvailable, coreSync, nonCore, installed>>
    /\ UNCHANGED notStartVars

\* The core caches sync (lines 186-196); Start then starts the goroutine
\* that waits for the other caches (lines 199-213).
StartCoreSynced ==
    /\ Alive
    /\ startPc = "waitCore"
    /\ coreSync' = "synced"
    /\ nonCore' = "waiting"
    /\ startPc' = "summary"
    /\ UNCHANGED <<metricsAvailable, installed, processPanic>>
    /\ UNCHANGED notStartVars

\* A Start that notes the failed sync of the core caches and goes on.
StartCoreSyncFailsGoesOn ==
    /\ Alive
    /\ startPc = "waitCore"
    /\ ctxDone
    /\ coreSync' = "failed"
    /\ nonCore' = "waiting"
    /\ startPc' = "summary"
    /\ UNCHANGED <<metricsAvailable, installed, processPanic>>
    /\ UNCHANGED notStartVars

\* WaitForCacheSync of line 190 returns false: panic (line 195).
StartCoreSyncFails ==
    /\ Alive
    /\ startPc = "waitCore"
    /\ ctxDone
    /\ coreSync' = "failed"
    /\ processPanic' = "core"
    /\ UNCHANGED <<startPc, metricsAvailable, nonCore, installed>>
    /\ UNCHANGED notStartVars

\* setupSummaryHandler (line 215).
StartSummaryHandler ==
    /\ Alive
    /\ startPc = "summary"
    /\ installed' = installed \cup {"summary"}
    /\ startPc' = "node"
    /\ UNCHANGED <<metricsAvailable, coreSync, nonCore, processPanic>>
    /\ UNCHANGED notStartVars

\* setupNodeHandler (line 216); installPodsHandler (line 217) follows.
StartNodeHandler ==
    /\ Alive
    /\ startPc = "node"
    /\ installed' = installed \cup {"node"}
    /\ startPc' = "pods"
    /\ UNCHANGED <<metricsAvailable, coreSync, nonCore, processPanic>>
    /\ UNCHANGED notStartVars

\* return nil (line 219), after installPodsHandler has returned.
StartReturn ==
    /\ Alive
    /\ startPc = "pods"
    /\ schedPc # "idle"
    /\ startPc' = "returned"
    /\ UNCHANGED <<metricsAvailable, coreSync, nonCore, installed, processPanic>>
    /\ UNCHANGED notStartVars

\* The goroutine of lines 199-213: the other caches sync.
NonCoreSynced ==
    /\ Alive
    /\ nonCore = "waiting"
    /\ nonCore' = "synced"
    /\ UNCHANGED <<startPc, metricsAvailable, coreSync, installed, processPanic>>
    /\ UNCHANGED notStartVars

\* The goroutine of lines 199-213: WaitForCacheSync returns false because
\* ctx.Done() is closed before the other caches have synced: panic (line 211).
NonCoreSyncFails ==
    /\ Alive
    /\ nonCore = "waiting"
    /\ ctxDone
    /\ processPanic' = "resource"
    /\ UNCHANGED <<startPc, metricsAvailable, coreSync, nonCore, installed>>
    /\ UNCHANGED notStartVars

InitStart ==
    /\ startPc = "notStarted"
    /\ metricsAvailable \in BOOLEAN
    /\ coreSync = "pending"
    /\ nonCore = "none"
    /\ installed = {}
    /\ processPanic = "none"
    /\ PeakAtRest /\ SortAtRest /\ RefreshAtRest /\ SchedAtRest
    /\ KeyAtRest /\ StatusAtRest /\ PanelAtRest

\* Start, the pod scheduler it installs, the redraw goroutine of Run fed by
\* the scheduler's callback, and the cancellation of the shared context.
NextStart ==
    \/ \E ctxIsNil \in BOOLEAN : StartCall(ctxIsNil)
    \/ StartMetricsSynced
    \/ StartMetricsSyncFails
    \/ StartCoreSynced
    \/ StartCoreSyncFails
    \/ StartSummaryHandler
    \/ StartNodeHandler
    \/ (Alive /\ startPc = "pods" /\ installPodsHandler)
    \/ StartReturn
    \/ NonCoreSynced
    \/ NonCoreSyncFails
    \/ (Alive /\ TickerTick)
    \/ (Alive /\ SelectTicker)
    \/ (Alive /\ SelectDone)
    \/ (Alive /\ CycleGetPodList)
    \/ (Alive /\ CycleBuildPod)
    \/ (Alive /\ CycleDeliver)
    \/ (Alive /\ Cancel)
    \/ (Alive /\ schedPc # "idle" /\ RefreshCall("ticker"))
    \/ (Alive /\ Refresh("ticker"))
    \/ (Alive /\ ConsumerReceive)
    \/ (Alive /\ DrawReturns)

SpecStart == InitStart /\ [][NextStart]_vars

\* Every goroutine that can run does run, and a select reached again and
\* again with ctx.Done() ready takes that case in the end.
SpecStartFair ==
    /\ SpecStart
    /\ WF_vars(Alive /\ CycleGetPodList)
    /\ WF_vars(Alive /\ CycleBuildPod)
    /\ WF_vars(Alive /\ CycleDeliver)
    /\ SF_vars(Alive /\ SelectDone)
    /\ WF_vars(Alive /\ Refresh("ticker"))
    /\ WF_vars(Alive /\ ConsumerReceive)
    /\ WF_vars(Alive /\ DrawReturns)

----------------------------------------------------------------------------
(* Properties of Start and of cancellation                                 *)

\* C26: once the context is cancelled, the pod scheduler and the redraw
\* goroutine of Run come to an end.
CancelStopsAllTasks ==
    (ctxDone /\ startPc = "returned") ~>
        \/ ~Alive
        \/ (~Running /\ consumer = "returned")

\* C27: once Start has returned nil the process does not panic.
NoPanicAfterStart ==
    startPc = "returned" => Alive

\* C28: when the sync of the core caches has failed, Start has not returned
\* and never will, no handler is installed, no cycle has started and no
\* callback was invoked.
CoreSyncFailureAborts ==
    coreSync = "failed" =>
        /\ ~Alive
        /\ startPc = "waitCore"
        /\ installed = {}
        /\ nonCore = "none"
        /\ schedPc = "idle"
        /\ cyclesStarted = 0
        /\ callbacks = 0
        /\ ~ENABLED NextStart

\* C37: a handler is installed, a cycle started or a callback invoked only
\* when the core caches have synced; and a Start that was given a nil
\* context has returned its error with no informer waited for, no handler
\* installed and no cycle started.
NoCallbackBeforeCoreSync ==
    /\ (installed # {} \/ schedPc # "idle" \/ cyclesStarted > 0 \/ callbacks > 0)
          => coreSync = "synced"
    /\ startPc = "returnedError" =>
          /\ coreSync = "pending"
          /\ nonCore = "none"
          /\ installed = {}
          /\ schedPc = "idle"
          /\ cyclesStarted = 0
          /\ callbacks = 0

\* The pod callback was invoked, after the core caches had synced and the
\* summary and node handlers were installed.
CallbackAfterCoreSync ==
    /\ callbacks > 0
    /\ coreSync = "synced"
    /\ installed = {"summary", "node"}

\* The wait for the core caches has failed, after the metrics caches had
\* synced.
CoreSyncFailedAfterMetrics ==
    /\ coreSync = "failed"
    /\ metricsAvailable
    /\ processPanic = "core"

----------------------------------------------------------------------------
(* views/model: the status summary of one pod                              *)

MaxStatusContainers == 2   \* container statuses of the pod

TerminatedContainer(reason, signal, exitCode, restarts) ==
    [Ready |-> FALSE, State |-> "Terminated", Reason |-> reason,
     Signal |-> signal, ExitCode |-> exitCode, RestartCount |-> restarts]

\* The container statuses a pod can report: running and ready; running but
\* not ready; waiting in CrashLoopBackOff; terminated as Completed;
\* terminated without a reason by signal 9; terminated without a reason
\* with exit code 1.
StatusContainers ==
    {RunningContainer(TRUE, 0),
     RunningContainer(FALSE, 1),
     WaitingContainer(StrCrashLoopBackOff, 2),
     TerminatedContainer(StrCompleted, 0, 0, 0),
     TerminatedContainer(StrEmpty, 9, 137, 1),
     TerminatedContainer(StrEmpty, 0, 1, 3)}

StatusLists ==
    UNION {[1..n -> StatusContainers] : n \in 0..MaxStatusContainers}

\* The pod NewPodModel is given: the statuses and the pod's Ready condition.
StatusPodObject ==
    [Namespace |-> StrDefault, Name |-> StrApi,
     ContainerStatuses |-> statusPod.ContainerStatuses,
     Conditions |-> <<[Type |-> "Ready",
                       Status |-> IF statusPod.Ready THEN "True" ELSE "False"]>>,
     PodIP |-> StrIP1, NodeName |-> StrNode1, Volumes |-> 0,
     CreationTimestamp |-> [IsZero |-> TRUE, Age |-> 0]]

\* NewPodModel (part_002:226-258) on the pod: the fields derived from its
\* container statuses.
BuildStatusView ==
    /\ ~statusView.built
    /\ LET view == NewPodModel(StatusPodObject, NewPodMetrics)
       IN  statusView' = [built |-> TRUE,
                          Status |-> view.Status,
                          ReadyContainers |-> view.ReadyContainers,
                          TotalContainers |-> view.TotalContainers,
                          Restarts |-> view.Restarts]
    /\ UNCHANGED statusPod
    /\ UNCHANGED notStatusVars

\* The pod's statuses change; its view is to be built again.
StatusChanges ==
    /\ statusView.built
    /\ \E cs \in StatusLists, ready \in BOOLEAN :
          statusPod' = [ContainerStatuses |-> cs, Ready |-> ready]
    /\ statusView' = [built |-> FALSE]
    /\ UNCHANGED notStatusVars

InitStatus ==
    /\ statusPod \in [ContainerStatuses : StatusLists, Ready : BOOLEAN]
    /\ statusView = [built |-> FALSE]
    /\ PeakAtRest /\ SortAtRest /\ RefreshAtRest /\ SchedAtRest
    /\ KeyAtRest /\ StartAtRest /\ PanelAtRest

NextStatus ==
    \/ BuildStatusView
    \/ StatusChanges

SpecStatus == InitStatus /\ [][NextStatus]_vars

----------------------------------------------------------------------------
(* Properties of the status summary                                        *)

RECURSIVE SumRestarts(_)
SumRestarts(cs) ==
    IF cs = <<>> THEN 0 ELSE Head(cs).RestartCount + SumRestarts(Tail(cs))

\* C29: ReadyContainers counts the containers that are running and ready,
\* TotalContainers counts the containers, Restarts adds up their restart
\* counts, and 0 <= ReadyContainers <= TotalContainers.
ContainerCounts ==
    statusView.built =>
        LET cs == statusPod.ContainerStatuses
        IN  /\ statusView.ReadyContainers =
                  Cardinality({i \in 1..Len(cs) :
                                  cs[i].State = "Running" /\ cs[i].Ready})
            /\ statusView.TotalContainers = Len(cs)
            /\ statusView.Restarts = SumRestarts(cs)
            /\ 0 <= statusView.ReadyContainers
            /\ statusView.ReadyContainers <= statusView.TotalContainers

\* The view of a pod with two running containers of which one is ready, and
\* restarts on record.
OneOfTwoReady ==
    /\ statusView.built
    /\ Len(statusPod.ContainerStatuses) = 2
    /\ \A i \in 1..2 : statusPod.ContainerStatuses[i].State = "Running"
    /\ statusView.ReadyContainers = 1
    /\ statusView.Restarts = 1

\* The containers of the list that are waiting or terminated.
NotRunning(cs) ==
    {i \in 1..Len(cs) : cs[i].State \in {"Waiting", "Terminated"}}

\* C30: the status is the reason of the first waiting or terminated
\* container; without one it is "Running" if a container is running and the
\* pod is Ready, and "NotReady" otherwise.
PodStatusRule ==
    statusView.built =>
        LET cs == statusPod.ContainerStatuses
        IN  statusView.Status =
               IF NotRunning(cs) # {}
               THEN cs[CHOOSE i \in NotRunning(cs) :
                          \A j \in NotRunning(cs) : i <= j].Reason
               ELSE IF (\E i \in 1..Len(cs) : cs[i].State = "Running")
                       /\ statusPod.Ready
               THEN StrRunning
               ELSE StrNotReady

----------------------------------------------------------------------------
(* views/model and the pod panel: the resource totals of a pod
   (GetPodContainerSummary), the node's allocatable resources
   (GetPodModels) and the CPU and MEMORY cells of the pod table (DrawBody).
   CPU quantities count billionths of a core, memory quantities bytes. *)

MaxSpecContainers == 2   \* containers in pod.Spec.Containers
MaxInitContainers == 1   \* containers in pod.Spec.InitContainers

\* The amounts the pods and nodes of the model carry: requests of 100m and
\* 64M, limits of 250m and 128M, an overhead of 10m and 1000001 bytes, a
\* node of 1000m and 2G.
Amounts ==
    [CpuRequest |-> 100000000, CpuLimit |-> 250000000,
     MemRequest |-> 64000000, MemLimit |-> 128000000,
     CpuOverhead |-> 10000000, MemOverhead |-> 1000001,
     NodeCpu |-> 1000000000, NodeMem |-> 2000000000]

\* A v1.ResourceList is a map from resource names to quantities; a nil list
\* has no entries.
NilList == [IsNilList |-> TRUE]
EmptyList == [n \in {} |-> 0]

\* ResourceList.Cpu and ResourceList.Memory: the entry, or a zero quantity
\* when the list has none. Neither returns nil.
Cpu(rl) == IF "cpu" \in DOMAIN rl THEN NewQuantity(rl["cpu"]) ELSE NewQuantity(0)
Memory(rl) ==
    IF "memory" \in DOMAIN rl THEN NewQuantity(rl["memory"]) ELSE NewQuantity(0)

\* Quantity.Add.
QuantityAdd(q, y) == NewQuantity(q.Value + y.Value)

\* Quantity.ScaledValue(resource.Mega): millions, rounded up.
ScaledValueMega(q) == (q.Value + 999999) \div 1000000

RequestLists ==
    {EmptyList, [n \in {"cpu"} |-> Amounts.CpuRequest],
     [n \in {"cpu", "memory"} |-> IF n = "cpu" THEN Amounts.CpuRequest ELSE Amounts.MemRequest]}
LimitLists ==
    {EmptyList, [n \in {"memory"} |-> Amounts.MemLimit],
     [n \in {"cpu", "memory"} |-> IF n = "cpu" THEN Amounts.CpuLimit ELSE Amounts.MemLimit]}
OverheadLists ==
    {NilList, EmptyList, [n \in {"cpu"} |-> Amounts.CpuOverhead],
     [n \in {"cpu", "memory"} |-> IF n = "cpu" THEN Amounts.CpuOverhead ELSE Amounts.MemOverhead]}
SpecContainers == [Requests : RequestLists, Limits : LimitLists]
SeqsUpTo(S, n) == UNION {[1..k -> S] : k \in 0..n}
SpecPods ==
    [Containers : SeqsUpTo(SpecContainers, MaxSpecContainers),
     InitContainers : SeqsUpTo(SpecContainers, MaxInitContainers),
     Overhead : OverheadLists]

\* Node.Status.Allocatable, or the empty list GetPodModels uses when the
\* node cannot be fetched.
NodeAllocs ==
    {EmptyList,
     [n \in {"cpu", "memory"} |-> IF n = "cpu" THEN Amounts.NodeCpu ELSE Amounts.NodeMem]}

\* The four totals after one container (the body of either loop).
AddContainer(totals, container) ==
    [requestedMems |->
         IF ~Memory(container.Requests).IsNil
         THEN QuantityAdd(totals.requestedMems, Memory(container.Requests))
         ELSE totals.requestedMems,
     requestedCpus |->
         IF ~Cpu(container.Requests).IsNil
         THEN QuantityAdd(totals.requestedCpus, Cpu(container.Requests))
         ELSE totals.requestedCpus,
     limitMems |->
         IF ~Memory(container.Limits).IsNil
         THEN QuantityAdd(totals.limitMems, Memory(container.Limits))
         ELSE totals.limitMems,
     limitCpus |->
         IF ~Cpu(container.Limits).IsNil
         THEN QuantityAdd(totals.limitCpus, Cpu(container.Limits))
         ELSE totals.limitCpus]

\* One of the two loops over a container list.
RECURSIVE AddContainers(_, _)
AddContainers(totals, containers) ==
    IF containers = <<>> THEN totals
    ELSE AddContainers(AddContainer(totals, Head(containers)), Tail(containers))

\* A variant that counts the overhead as a request only.
AddOverheadToRequests(totals, overhead) ==
    IF overhead # NilList
    THEN [totals EXCEPT
            !.requestedMems = QuantityAdd(@, Memory(overhead)),
            !.requestedCpus = QuantityAdd(@, Cpu(overhead))]
    ELSE totals

\* The overhead block: a pod overhead counts as a request and as a limit.
AddOverhead(totals, overhead) ==
    IF overhead # NilList
    THEN [totals EXCEPT
            !.requestedMems = QuantityAdd(@, Memory(overhead)),
            !.limitMems = QuantityAdd(@, Memory(overhead)),
            !.requestedCpus = QuantityAdd(@, Cpu(overhead)),
            !.limitCpus = QuantityAdd(@, Cpu(overhead))]
    ELSE totals

GetPodContainerSummary(pod) ==
    LET zero == [requestedMems |-> NewQuantity(0), requestedCpus |-> NewQuantity(0),
                 limitMems |-> NewQuantity(0), limitCpus |-> NewQuantity(0)]
        totals == AddOverhead(
                      AddContainers(AddContainers(zero, pod.Containers),
                                    pod.InitContainers),
                      pod.Overhead)
    IN  [RequestedMemQty |-> totals.requestedMems,
         RequestedCpuQty |-> totals.requestedCpus,
         LimitMemQty |-> totals.limitMems,
         LimitCpuQty |-> totals.limitCpus]

\* NewPodModel's resource fields, and the node fields GetPodModels adds.
BuildSummaryView ==
    /\ ~summaryView.built
    /\ LET containerSummary == GetPodContainerSummary(specPod)
       IN  summaryView' =
               [built |-> TRUE,
                PodRequestedCpuQty |-> containerSummary.RequestedCpuQty,
                PodRequestedMemQty |-> containerSummary.RequestedMemQty,
                PodLimitCpuQty |-> containerSummary.LimitCpuQty,
                PodLimitMemQty |-> containerSummary.LimitMemQty,
                NodeAllocatableMemQty |-> Memory(nodeAlloc),
                NodeAllocatableCpuQty |-> Cpu(nodeAlloc)]
    /\ UNCHANGED <<specPod, nodeAlloc, metricsDisabled, cells>>
    /\ UNCHANGED notSummaryVars

\* A variant of the CPU cell that takes every limit that is not nil.
CpuCellAnyLimit(pod) ==
    IF ~pod.PodLimitCpuQty.IsNil
    THEN [denominator |-> MilliValue(pod.PodLimitCpuQty),
          label |-> Itoa(MilliValue(pod.PodLimitCpuQty)) \o <<109>>]
    ELSE [denominator |-> MilliValue(pod.NodeAllocatableCpuQty),
          label |-> Itoa(MilliValue(pod.NodeAllocatableCpuQty)) \o <<109, 42>>]

\* The denominator and the limit label ("%dm", "%dm*") of the CPU cell.
CpuCell(pod) ==
    IF ~pod.PodLimitCpuQty.IsNil /\ MilliValue(pod.PodLimitCpuQty) > 0
    THEN [denominator |-> MilliValue(pod.PodLimitCpuQty),
          label |-> Itoa(MilliValue(pod.PodLimitCpuQty)) \o <<109>>]
    ELSE [denominator |-> MilliValue(pod.NodeAllocatableCpuQty),
          label |-> Itoa(MilliValue(pod.NodeAllocatableCpuQty)) \o <<109, 42>>]

\* The denominator and the limit label ("%dMi", "%dMi*") of the MEMORY cell.
MemCell(pod) ==
    IF ~pod.PodLimitMemQty.IsNil /\ Value(pod.PodLimitMemQty) > 0
    THEN [denominator |-> Value(pod.PodLimitMemQty),
          label |-> Itoa(ScaledValueMega(pod.PodLimitMemQty)) \o <<77, 105>>]
    ELSE [denominator |-> Value(pod.NodeAllocatableMemQty),
          label |-> Itoa(ScaledValueMega(pod.NodeAllocatableMemQty))
                      \o <<77, 105, 42>>]

\* DrawBody's CPU and MEMORY columns for the one row.
DrawCells ==
    /\ summaryView.built
    /\ ~cells.drawn
    /\ cells' = IF metricsDisabled
                THEN [drawn |-> TRUE, unavailable |-> TRUE]
                ELSE [drawn |-> TRUE, unavailable |-> FALSE,
                      cpu |-> CpuCell(summaryView), mem |-> MemCell(summaryView)]
    /\ UNCHANGED <<specPod, nodeAlloc, metricsDisabled, summaryView>>
    /\ UNCHANGED notSummaryVars

InitSummary ==
    /\ specPod \in SpecPods
    /\ nodeAlloc \in NodeAllocs
    /\ metricsDisabled \in BOOLEAN
    /\ summaryView = [built |-> FALSE]
    /\ cells = [drawn |-> FALSE]
    /\ PeakAtRest /\ SortAtRest /\ RefreshAtRest /\ SchedAtRest
    /\ KeyAtRest /\ StartAtRest /\ StatusAtRest /\ RebuildAtRest /\ RaceAtRest
    /\ InputAtRest /\ NavAtRest

NextSummary ==
    \/ BuildSummaryView
    \/ DrawCells

SpecSummary == InitSummary /\ [][NextSummary]_vars

\* The sum of one resource over the lists of a pod, a missing entry being
\* zero.
RECURSIVE SumOfEntries(_, _)
SumOfEntries(lists, name) ==
    IF lists = <<>> THEN 0
    ELSE (IF name \in DOMAIN Head(lists) THEN Head(lists)[name] ELSE 0)
         + SumOfEntries(Tail(lists), name)

RequestsOf(pod) ==
    [i \in 1..Len(pod.Containers) |-> pod.Containers[i].Requests]
      \o [i \in 1..Len(pod.InitContainers) |-> pod.InitContainers[i].Requests]
      \o <<pod.Overhead>>
LimitsOf(pod) ==
    [i \in 1..Len(pod.Containers) |-> pod.Containers[i].Limits]
      \o [i \in 1..Len(pod.InitContainers) |-> pod.InitContainers[i].Limits]
      \o <<pod.Overhead>>

\* C31: each of the four totals is the sum, over the regular containers and
\* the init containers, of the container's request or limit (a missing one
\* counting as zero), plus the pod overhead when the pod has one, the
\* overhead counting both as a request and as a limit.
SummaryTotals ==
    summaryView.built =>
        /\ summaryView.PodRequestedCpuQty
               = NewQuantity(SumOfEntries(RequestsOf(specPod), "cpu"))
        /\ summaryView.PodRequestedMemQty
               = NewQuantity(SumOfEntries(RequestsOf(specPod), "memory"))
        /\ summaryView.PodLimitCpuQty
               = NewQuantity(SumOfEntries(LimitsOf(specPod), "cpu"))
        /\ summaryView.PodLimitMemQty
               = NewQuantity(SumOfEntries(LimitsOf(specPod), "memory"))

\* The view of a pod with two containers, one of them without limits, an
\* init container and an overhead.
SummaryOfFullPod ==
    /\ summaryView.built
    /\ Len(specPod.Containers) = 2
    /\ specPod.Containers[1].Limits = EmptyList
    /\ specPod.Containers[2].Limits # EmptyList
    /\ Len(specPod.InitContainers) = 1
    /\ specPod.InitContainers[1].Requests # EmptyList
    /\ "cpu" \in DOMAIN specPod.Overhead
    /\ summaryView.PodLimitCpuQty.Value = Amounts.CpuLimit + Amounts.CpuOverhead

\* The label ends with the star that marks the node fallback.
Starred(label) == label[Len(label)] = 42

\* C32: the denominator of a usage ratio is the pod's own limit when that
\* limit is set and greater than zero and the node's allocatable amount
\* otherwise; the label carries a star in the second case and only then.
RatioDenominator ==
    (cells.drawn /\ ~cells.unavailable) =>
        /\ IF MilliValue(summaryView.PodLimitCpuQty) > 0
           THEN /\ cells.cpu.denominator = MilliValue(summaryView.PodLimitCpuQty)
                /\ ~Starred(cells.cpu.label)
           ELSE /\ cells.cpu.denominator
                      = MilliValue(summaryView.NodeAllocatableCpuQty)
                /\ Starred(cells.cpu.label)
        /\ IF Value(summaryView.PodLimitMemQty) > 0
           THEN /\ cells.mem.denominator = Value(summaryView.PodLimitMemQty)
                /\ ~Starred(cells.mem.label)
           ELSE /\ cells.mem.denominator
                      = Value(summaryView.NodeAllocatableMemQty)
                /\ Starred(cells.mem.label)

\* A pod without a CPU limit on a node with 1000 millicores: the
\* denominator is 1000 and the label is "1000m*".
NoLimitOnNodeOf1000m ==
    /\ cells.drawn /\ ~cells.unavailable
    /\ SumOfEntries(LimitsOf(specPod), "cpu") = 0
    /\ Cpu(nodeAlloc) = NewQuantity(Amounts.NodeCpu)
    /\ cells.cpu.denominator = 1000
    /\ cells.cpu.label = <<49, 48, 48, 48, 109, 42>>

----------------------------------------------------------------------------
(* views/model: the same pod and the same metrics built into a view twice.
   A pod's creation timestamp is a point in time; timeSince reads the wall
   clock when the view is built. *)

MaxElapsed == 2   \* seconds the clock advances in a behaviour

\* time.Since(ts.Time) at the present reading of the clock.
Since(ts, clock) == [IsZero |-> ts.IsZero, Age |-> clock - ts.Time]

\* The pods of PodCases, created as long before time 0 as the case is old.
RawInputs ==
    {[pod |-> [Namespace |-> id.Namespace, Name |-> id.Name,
               ContainerStatuses |-> c.ContainerStatuses,
               Conditions |-> c.Conditions,
               PodIP |-> c.PodIP, NodeName |-> c.NodeName,
               Volumes |-> c.Volumes,
               CreationTimestamp |->
                   [IsZero |-> c.CreationTimestamp.IsZero,
                    Time |-> 0 - c.CreationTimestamp.Age]],
      podMetrics |-> c.Metrics] : id \in PodIdentities, c \in PodCases}

\* NewPodModel(pod, podMetrics, nodeMetrics) at the present time.
BuildView ==
    /\ Len(builtViews) < 2
    /\ builtViews' =
           Append(builtViews,
                  NewPodModel([rawInput.pod EXCEPT
                                   !.CreationTimestamp = Since(@, now)],
                              rawInput.podMetrics))
    /\ UNCHANGED <<now, rawInput>>
    /\ UNCHANGED notRebuildVars

\* A second passes.
ClockTick ==
    /\ now < MaxElapsed
    /\ now' = now + 1
    /\ UNCHANGED <<rawInput, builtViews>>
    /\ UNCHANGED notRebuildVars

InitRebuild ==
    /\ now = 0
    /\ rawInput \in RawInputs
    /\ builtViews = <<>>
    /\ PeakAtRest /\ SortAtRest /\ RefreshAtRest /\ SchedAtRest
    /\ KeyAtRest /\ StartAtRest /\ StatusAtRest /\ SummaryAtRest /\ RaceAtRest
    /\ InputAtRest /\ NavAtRest

NextRebuild ==
    \/ BuildView
    \/ ClockTick

SpecRebuild == InitRebuild /\ [][NextRebuild]_vars

\* C33: two views built from the same pod object and the same metrics are
\* equal in every field.
RebuildIsIdempotent ==
    Len(builtViews) = 2 => builtViews[1] = builtViews[2]

----------------------------------------------------------------------------
(* views/model: SortPodModels on one task while SetSortField runs on
   another.  The sort reads currentSortDirection once, into its local
   variable, and currentSortField in every call of the less function; no
   lock guards either global.  sort.Slice sorts a slice of fewer than 12
   elements by insertion, one call of less per step. *)

MaxSetCalls == 1   \* SetSortField calls during one sort

\* The fields the other task sets, and the sort states a call can find.
RaceFields == {"POD", "CPU"}
RaceStates == ({"NAMESPACE"} \cup RaceFields) \X {SortAscending, SortDescending}

\* SortPodModels begins: line 115.
SortBegins ==
    /\ racePc = "idle"
    /\ racePc' = "sort"
    /\ localDirection' = currentSortDirection
    /\ sortI' = 2
    /\ sortJ' = 2
    /\ statesDuring' = {<<currentSortField, currentSortDirection>>}
    /\ UNCHANGED setCalls
    /\ UNCHANGED sortVars
    /\ UNCHANGED notRaceVars

\* One step of the insertion sort: a call of less, which reads
\* currentSortField (line 119), and the swap it decides.
SortStep ==
    /\ racePc = "sort"
    /\ sortI <= Len(podModels)
    /\ IF sortJ > 1 /\ Less(podModels[sortJ], podModels[sortJ - 1],
                            currentSortField, localDirection)
       THEN /\ podModels' = Swap(podModels, sortJ, sortJ - 1)
            /\ sortJ' = sortJ - 1
            /\ UNCHANGED sortI
       ELSE /\ sortI' = sortI + 1
            /\ sortJ' = sortI + 1
            /\ UNCHANGED podModels
    /\ UNCHANGED <<racePc, localDirection, statesDuring, setCalls>>
    /\ UNCHANGED <<currentSortField, currentSortDirection, podInputs, nanBits,
                   lastOp>>
    /\ UNCHANGED notRaceVars

\* sort.Slice returns.
SortEnds ==
    /\ racePc = "sort"
    /\ sortI > Len(podModels)
    /\ racePc' = "done"
    /\ UNCHANGED <<localDirection, sortI, sortJ, statesDuring, setCalls>>
    /\ UNCHANGED sortVars
    /\ UNCHANGED notRaceVars

\* SetSortField (part_002:103-112) on the other task, between two steps of
\* the sort.
RacingSetSortField(field) ==
    /\ racePc = "sort"
    /\ setCalls < MaxSetCalls
    /\ setCalls' = setCalls + 1
    /\ IF currentSortField = field
       THEN /\ currentSortDirection' = currentSortDirection * (-1)
            /\ currentSortField' = currentSortField
       ELSE /\ currentSortField' = field
            /\ currentSortDirection' = SortAscending
    /\ statesDuring' =
           statesDuring \cup {<<currentSortField', currentSortDirection'>>}
    /\ UNCHANGED <<racePc, localDirection, sortI, sortJ>>
    /\ UNCHANGED <<podModels, podInputs, nanBits, lastOp>>
    /\ UNCHANGED notRaceVars

\* A collection fresh from GetPodModels and a sort state earlier key presses
\* left behind.
InitRace ==
    /\ \E st \in RaceStates :
           /\ currentSortField = st[1]
           /\ currentSortDirection = st[2]
    /\ podInputs \in {l \in PodListings : Len(l) >= 2}
    /\ podModels = BuildPodModels(podInputs)
    /\ nanBits = 65528
    /\ lastOp = [op |-> "none", field |-> ""]
    /\ RaceAtRest
    /\ PeakAtRest /\ RefreshAtRest /\ SchedAtRest
    /\ KeyAtRest /\ StartAtRest /\ StatusAtRest /\ SummaryAtRest /\ RebuildAtRest
    /\ InputAtRest /\ NavAtRest

NextRace ==
    \/ SortBegins
    \/ SortStep
    \/ SortEnds
    \/ \E field \in RaceFields : RacingSetSortField(field)

SpecRace == InitRace /\ [][NextRace]_vars

\* No element of the collection is less than its predecessor under the
\* field and the direction.
OrderedBy(data, field, direction) ==
    \A i \in 1..(Len(data) - 1) : ~Less(data[i + 1], data[i], field, direction)

\* C34: the order SortPodModels leaves is the order of one sort state that
\* was in force at some moment of the call, also when SetSortField runs on
\* another task during the sort.
SortedByOneState ==
    racePc = "done" =>
        \E st \in statesDuring : OrderedBy(podModels, st[1], st[2])

----------------------------------------------------------------------------
(* cmd/ktop.go and installPodsHandler: the pod scheduler under every value
   of --pods-refresh.  The flag is an int without validation; runKtop turns
   it into the controller's interval; time.NewTicker panics when its
   argument is not positive, and the goroutine that calls it recovers from
   nothing. *)

\* Values of --pods-refresh: the default, a small one, zero, a negative one.
PodsRefreshFlags == {-1, 0, 1, 3}

\* time.Duration(o.podsRefresh) * time.Second, in seconds.
DurationOfFlag(n) == n

\* The goroutine has returned from its initial refresh and stands at line
\* 113 with an interval NewTicker refuses.
NewTickerPanics ==
    /\ Alive
    /\ schedPc = "select"
    /\ PodsRefreshInterval <= 0
    /\ processPanic' = "NewTicker"
    /\ UNCHANGED <<startPc, metricsAvailable, coreSync, nonCore, installed>>
    /\ UNCHANGED <<peakVars, sortVars, refreshVars, schedVars, keyVars,
                   statusVars, panelVars>>

\* The ticker exists: line 113 has returned.
TickerCreated == Alive /\ PodsRefreshInterval > 0

InitFlag ==
    /\ \E n \in PodsRefreshFlags : PodsRefreshInterval = DurationOfFlag(n)
    /\ keyPc = "idle"
    /\ keyField = ""
    /\ keyLog = <<>>
    /\ keyEvents = 0
    /\ forcedListed = 0
    /\ forcedBuilt = 0
    /\ forcedExpired = FALSE
    /\ builtAtExpiry = -1
    /\ forcedCalls = 0
    /\ shown = -1
    /\ lastForced = [err |-> FALSE, calls |-> 0, size |-> 0, listed |-> 0,
                     builtAtExpiry |-> -1, ticks |-> 0]
    /\ ctxDone = FALSE
    /\ podRefreshFunc = TRUE
    /\ schedPc = "idle"
    /\ tickerC = 0
    /\ ticksSent = 0
    /\ ticksReceived = 0
    /\ cyclesStarted = 0
    /\ callbacks = 0
    /\ cyclePhase = "none"
    /\ cycleListed = 0
    /\ cycleBuilt = 0
    /\ cancelledMidBuild = FALSE
    /\ lastCycle = [err |-> FALSE, delivered |-> FALSE, cancelledMidBuild |-> FALSE]
    /\ PeakAtRest /\ SortAtRest /\ RefreshAtRest
    /\ StartAtRest /\ StatusAtRest /\ PanelAtRest

NextFlag ==
    \/ (Alive /\ installPodsHandler)
    \/ (Alive /\ CycleGetPodList)
    \/ (Alive /\ CycleBuildPod)
    \/ (Alive /\ CycleDeliver)
    \/ NewTickerPanics
    \/ (TickerCreated /\ TickerTick)
    \/ (TickerCreated /\ SelectTicker)
    \/ (TickerCreated /\ SelectDone)
    \/ (Alive /\ Cancel)

SpecFlag == InitFlag /\ [][NextFlag]_vars

\* C36: the interval the scheduler hands to NewTicker is positive, and the
\* scheduler does not fail on it.
TickerIntervalPositive ==
    /\ schedPc \in {"select", "tick", "stopped"} => PodsRefreshInterval > 0
    /\ processPanic # "NewTicker"

----------------------------------------------------------------------------
(* The input capture of Application.setup (app_ctrl.go:129-254), from the
   key event on.  An event has a key, a rune (its code point, for the key
   KeyRune) and a set of modifiers. *)

\* Events the terminal can deliver: letters in both cases, a letter that
\* is no sort key, keys that are no runes; alone and with modifiers.
InputRunes == {78, 80, 88, 112, 120}   \* 'N', 'P', 'X', 'p', 'x'
InputMods == {{}, {"Shift"}, {"Ctrl"}, {"Shift", "Ctrl"}, {"Alt"}, {"Meta"}}
InputEvents ==
    [Key : {"Rune"}, Rune : InputRunes, Mods : InputMods]
      \cup [Key : {"Esc", "Tab", "F1"}, Rune : {0}, Mods : {{}, {"Shift"}}]

\* The rune with the code point r, for the letters 'a' to 'z'.
LowerLetters ==
    <<"a", "b", "c", "d", "e", "f", "g", "h", "i", "j", "k", "l", "m",
      "n", "o", "p", "q", "r", "s", "t", "u", "v", "w", "x", "y", "z">>
RuneOf(r) == IF r >= 97 /\ r <= 122 THEN LowerLetters[r - 96] ELSE "?"

\* The earlier form of the capture: no look at Ctrl, Alt or Meta, and any
\* modifier set that holds Shift.
SortFieldOfEventAnyShift(ev, view) ==
    LET isUppercaseKey == ev.Key = "Rune" /\ ev.Rune >= 65 /\ ev.Rune <= 90
        handleSortKey == (isUppercaseKey \/ "Shift" \in ev.Mods) /\ view = 0
    IN  IF handleSortKey /\ ev.Key = "Rune"
        THEN SortFieldOfRune(RuneOf(IF ev.Rune >= 65 /\ ev.Rune <= 90
                                     THEN ev.Rune + (97 - 65) ELSE ev.Rune))
        ELSE ""

\* The sort field the capture derives from an event (lines 133-191): ""
\* when the event is no sort key.
SortFieldOfEvent(ev, view) ==
    IF ev.Mods \cap {"Ctrl", "Meta", "Alt"} # {} THEN ""
    ELSE
        LET isUppercaseKey == ev.Key = "Rune" /\ ev.Rune >= 65 /\ ev.Rune <= 90
            modIsOnlyShift == ev.Mods = {"Shift"}
            handleSortKey == (isUppercaseKey \/ modIsOnlyShift) /\ view = 0
        IN  IF handleSortKey /\ ev.Key = "Rune"
            THEN SortFieldOfRune(RuneOf(IF ev.Rune >= 65 /\ ev.Rune <= 90
                                         THEN ev.Rune + (97 - 65) ELSE ev.Rune))
            ELSE ""

\* What the capture does with an event that is no sort key (lines 133-135
\* and 226-253).
RestOfCapture(ev) ==
    IF ev.Mods \cap {"Ctrl", "Meta", "Alt"} # {} THEN "returned"
    ELSE IF ev.Key = "Esc" THEN "Stop"
    ELSE IF ev.Key = "Tab" THEN "Focus"
    ELSE IF ev.Key = "F1" THEN "switchToPage"
    ELSE "returned"

\* tview hands the next key event to the capture.
KeyEventArrives(ev) ==
    /\ keyPc = "idle"
    /\ ~eventPending
    /\ inputEffect # "Stop"
    /\ keyEvents < MaxKeys
    /\ event' = ev
    /\ eventPending' = TRUE
    /\ keyEvents' = keyEvents + 1
    /\ UNCHANGED <<visibleView, inputEffect>>
    /\ UNCHANGED <<keyPc, keyField, keyLog, forcedListed, forcedBuilt,
                   forcedExpired, builtAtExpiry, forcedCalls, shown, lastForced,
                   PodsRefreshInterval>>
    /\ UNCHANGED <<peakVars, sortVars, refreshVars, schedVars, startVars,
                   statusVars, summaryVars, rebuildVars, raceVars, navVars>>

\* The capture up to its first call: SetSortField for a sort key (line 199),
\* with the forced refresh to follow; the rest of the capture for any other
\* event.
InputCapture ==
    /\ keyPc = "idle"
    /\ eventPending
    /\ eventPending' = FALSE
    /\ LET sortField == SortFieldOfEvent(event, visibleView)
       IN  IF sortField # ""
           THEN /\ IF currentSortField = sortField
                   THEN /\ currentSortDirection' = currentSortDirection * (-1)
                        /\ currentSortField' = currentSortField
                   ELSE /\ currentSortField' = sortField
                        /\ currentSortDirection' = SortAscending
                /\ lastOp' = [op |-> "SetSortField", field |-> sortField]
                /\ keyField' = sortField
                /\ keyLog' = <<"SetSortField">>
                /\ keyPc' = "TriggerPodRefresh"
                /\ inputEffect' = "sort"
           ELSE /\ inputEffect' = RestOfCapture(event)
                /\ UNCHANGED <<currentSortField, currentSortDirection, lastOp,
                               keyField, keyLog, keyPc>>
    /\ UNCHANGED <<visibleView, event>>
    /\ UNCHANGED <<podModels, podInputs, nanBits>>
    /\ UNCHANGED <<keyEvents, forcedListed, forcedBuilt, forcedExpired,
                   builtAtExpiry, forcedCalls, shown, lastForced,
                   PodsRefreshInterval>>
    /\ UNCHANGED <<peakVars, refreshVars, schedVars, startVars, statusVars,
                   summaryVars, rebuildVars, raceVars, navVars>>

\* ShowPanel (lines 79-81).
ShowPanel(i) ==
    /\ visibleView # i
    /\ visibleView' = i
    /\ UNCHANGED <<event, eventPending, inputEffect>>
    /\ UNCHANGED <<peakVars, sortVars, refreshVars, schedVars, keyVars,
                   startVars, statusVars, summaryVars, rebuildVars, raceVars,
                   navVars>>

InitInput ==
    /\ InputAtRest
    /\ PeakAtRest /\ SortAtRest /\ RefreshAtRest /\ SchedAtRest
    /\ KeyAtRest /\ StartAtRest /\ StatusAtRest
    /\ SummaryAtRest /\ RebuildAtRest /\ RaceAtRest /\ NavAtRest

NextInput ==
    \/ \E ev \in InputEvents : KeyEventArrives(ev)
    \/ InputCapture
    \/ \E i \in {0, 1} : ShowPanel(i)
    \/ TriggerPodRefresh
    \/ ForcedGetPodList
    \/ ForcedBuildPod
    \/ ForcedDeliver
    \/ KeyRefresh
    \/ KeyReturn

SpecInput == InitInput /\ [][NextInput]_vars

\* The code points of the eleven sort letters n, p, s, a, o, r, t, c, m, i, v.
SortLetters == {110, 112, 115, 97, 111, 114, 116, 99, 109, 105, 118}

\* The event is a sort key: the overview is visible, no Ctrl, Alt or Meta
\* is held, the event is an uppercase letter or a rune with Shift alone,
\* and its letter is one of the eleven.
IsSortKey(ev, view) ==
    /\ view = 0
    /\ ev.Mods \cap {"Ctrl", "Alt", "Meta"} = {}
    /\ ev.Key = "Rune"
    /\ \/ ev.Rune \in 65..90 /\ (ev.Rune + 32) \in SortLetters
       \/ ev.Mods = {"Shift"} /\ ev.Rune \in SortLetters

\* C38: a step changes the sort field or the sort direction, or starts a
\* forced refresh, only when it handles a key event that is a sort key.
OnlySortKeysChangeSort ==
    [][(\/ currentSortField' # currentSortField
        \/ currentSortDirection' # currentSortDirection
        \/ (keyPc = "idle" /\ keyPc' # "idle"))
       => (eventPending /\ ~eventPending' /\ IsSortKey(event, visibleView))]_vars

\* The capture has handled 'P' typed without a modifier on the overview:
\* the pods are sorted by POD and the forced refresh is about to start.
UppercasePHandled ==
    /\ event = [Key |-> "Rune", Rune |-> 80, Mods |-> {}]
    /\ ~eventPending
    /\ inputEffect = "sort"
    /\ currentSortField = "POD"
    /\ keyPc = "TriggerPodRefresh"

----------------------------------------------------------------------------
(* The navigation keys of the pod list (the input capture that
   podPanel.Layout installs on the table).  Table.Select stores the row it
   is given; the table has one header row and one row per pod. *)

MaxRows == 3      \* pods in the table
MaxHeight == 3    \* height of the table's inner rectangle

NavKeys == {"Up", "Down", "PgUp", "PgDn", "Home", "End"}

\* The row the key asks ensureVisible for; the row itself when the key
\* leaves the selection alone (lines 484-521).
NavTarget(key, row, rowCount, height) ==
    LET pageSize == height - 1
    IN  CASE key = "Up" -> IF row > 1 THEN row - 1 ELSE row
          [] key = "Down" -> IF row < rowCount - 1 THEN row + 1 ELSE row
          [] key = "PgUp" -> IF row - pageSize < 1 THEN 1 ELSE row - pageSize
          [] key = "PgDn" -> IF row + pageSize >= rowCount THEN rowCount - 1
                             ELSE row + pageSize
          [] key = "Home" -> 1
          [] key = "End" -> rowCount - 1

\* Up and Down call ensureVisible only when their test passes; the other
\* keys always do.
CallsEnsureVisible(key, row, rowCount) ==
    CASE key = "Up" -> row > 1
      [] key = "Down" -> row < rowCount - 1
      [] OTHER -> TRUE

\* The offset ensureVisible leaves (lines 468-479): both tests compare with
\* the offset read before either SetOffset.
OffsetAfter(newRow, currentRow, height) ==
    LET visibleRows == height - 1
        first == IF newRow < currentRow THEN newRow ELSE currentRow
    IN  IF newRow >= currentRow + visibleRows THEN newRow - visibleRows + 1
        ELSE first

\* The input capture of the table handles a navigation key.
NavKey(key) ==
    /\ navRowCount > 0
    /\ navRow >= 0 - 2 /\ navRow <= MaxRows + 2
    /\ LET newRow == NavTarget(key, navRow, navRowCount, navHeight)
       IN  IF CallsEnsureVisible(key, navRow, navRowCount)
           THEN /\ navRow' = newRow
                /\ navOffset' = OffsetAfter(newRow, navOffset, navHeight)
                /\ navLast' = [key |-> key, moved |-> newRow # navRow]
           ELSE /\ navLast' = [key |-> key, moved |-> FALSE]
                /\ UNCHANGED <<navRow, navOffset>>
    /\ UNCHANGED <<navRowCount, navHeight>>
    /\ UNCHANGED notNavVars

\* The focus function (lines 526-552).
NavFocus ==
    /\ navRowCount > 0
    /\ IF navRow <= 0 /\ navRowCount > 1
       THEN /\ navRow' = 1
            /\ navOffset' = 0
       ELSE /\ navOffset' = OffsetAfter(navRow, navOffset, navHeight)
            /\ UNCHANGED navRow
    /\ navLast' = [key |-> "none", moved |-> FALSE]
    /\ UNCHANGED <<navRowCount, navHeight>>
    /\ UNCHANGED notNavVars

\* The terminal is resized.
NavResize(h) ==
    /\ navRowCount > 0
    /\ navHeight # h
    /\ navHeight' = h
    /\ navLast' = [key |-> "none", moved |-> FALSE]
    /\ UNCHANGED <<navRow, navRowCount, navOffset>>
    /\ UNCHANGED notNavVars

\* The table as DrawHeader and DrawBody filled it: the header and up to
\* MaxRows pods, which can be none; nothing is selected yet.
InitNav ==
    /\ navRow = 0
    /\ navRowCount \in 1..(MaxRows + 1)
    /\ navHeight \in 0..MaxHeight
    /\ navOffset = 0
    /\ navLast = [key |-> "none", moved |-> FALSE]
    /\ PeakAtRest /\ SortAtRest /\ RefreshAtRest /\ SchedAtRest
    /\ KeyAtRest /\ StartAtRest /\ StatusAtRest
    /\ SummaryAtRest /\ RebuildAtRest /\ RaceAtRest /\ InputAtRest

NextNav ==
    \/ \E key \in NavKeys : NavKey(key)
    \/ NavFocus
    \/ \E h \in 0..MaxHeight : NavResize(h)

SpecNav == InitNav /\ [][NextNav]_vars

====
